---- MODULE Spec2Model ----
(***************************************************************************)
(* Model of forseti-sdk: the engine-side NDJSON servers (EngineServer,     *)
(* RulesetServer), the per-rule configuration tri-form, the ruleset        *)
(* runtime (rule dispatch, annotation parsing and masking), the            *)
(* environment overrides of the configuration, and the host side           *)
(* (engine discovery, EngineHandle, EngineManager and their child         *)
(* processes).                                                             *)
(***************************************************************************)
EXTENDS Naturals, Integers, Sequences, FiniteSets, TLC

(***************************************************************************)
(* Bounds of the model.                                                    *)
(***************************************************************************)
\* Number of stdin lines one server run reads.
MaxLines == 3

(***************************************************************************)
(* JSON values (serde_json::Value). A value is a record [tag, val].        *)
(* Object keys and rule ids are strings held as sequences of characters.   *)
(***************************************************************************)
JNull == [tag |-> "null", val |-> "null"]
JBool(b) == [tag |-> "bool", val |-> b]
JNum(n) == [tag |-> "num", val |-> n]
JStr(s) == [tag |-> "str", val |-> s]
JArr(a) == [tag |-> "arr", val |-> a]
JObj(f) == [tag |-> "obj", val |-> f]
\* json!({})
EmptyObj == JObj(<<>>)

\* Value::as_str, as an Option held as a sequence of length 0 or 1
as_str(v) == IF v.tag = "str" THEN <<v.val>> ELSE <<>>
is_array(v) == v.tag = "arr"
is_object(v) == v.tag = "obj"
\* Value::get(i) on an array: None when out of range (i is 0-based)
get_index(v, i) == IF v.tag = "arr" /\ i + 1 <= Len(v.val) THEN <<v.val[i + 1]>> ELSE <<>>

\* Option helpers: None is << >>, Some(x) is <<x>>
None == <<>>
Some(x) == <<x>>
unwrap_or(o, d) == IF o = <<>> THEN d ELSE o[1]

(***************************************************************************)
(* Strings as sequences of characters, with the str methods the code uses. *)
(***************************************************************************)
IsWhitespace(c) == c \in {" ", "\t", "\n", "\r"}

RECURSIVE trim_start(_)
trim_start(s) ==
    IF s = <<>> THEN <<>>
    ELSE IF IsWhitespace(Head(s)) THEN trim_start(Tail(s))
    ELSE s

RECURSIVE trim_end(_)
trim_end(s) ==
    IF s = <<>> THEN <<>>
    ELSE IF IsWhitespace(s[Len(s)]) THEN trim_end(SubSeq(s, 1, Len(s) - 1))
    ELSE s

trim(s) == trim_end(trim_start(s))

starts_with(s, p) == Len(s) >= Len(p) /\ SubSeq(s, 1, Len(p)) = p

\* str::strip_prefix: None when s does not start with p
strip_prefix(s, p) ==
    IF starts_with(s, p) THEN Some(SubSeq(s, Len(p) + 1, Len(s))) ELSE None

\* str::split(c): the pieces between occurrences of c (always at least one piece)
RECURSIVE split(_, _)
split(s, c) ==
    IF \A i \in 1..Len(s) : s[i] # c THEN <<s>>
    ELSE LET i == CHOOSE k \in 1..Len(s) : s[k] = c /\ \A j \in 1..(k - 1) : s[j] # c
         IN <<SubSeq(s, 1, i - 1)>> \o split(SubSeq(s, i + 1, Len(s)), c)

\* str::lines: split at "\n", a final empty piece is not a line, and a "\r"
\* directly before the "\n" belongs to the line ending
lines(text) ==
    LET pieces == split(text, "\n")
        n == Len(pieces)
        kept == IF pieces[n] = <<>> THEN SubSeq(pieces, 1, n - 1) ELSE pieces
        strip_cr(i) ==
            LET l == kept[i]
            IN IF i < n /\ l # <<>> /\ l[Len(l)] = "\r"
               THEN SubSeq(l, 1, Len(l) - 1) ELSE l
    IN [i \in 1..Len(kept) |-> strip_cr(i)]

\* Iterator::filter over a sequence
RECURSIVE SelectNonEmpty(_)
SelectNonEmpty(ss) ==
    IF ss = <<>> THEN <<>>
    ELSE IF Head(ss) = <<>> THEN SelectNonEmpty(Tail(ss))
    ELSE <<Head(ss)>> \o SelectNonEmpty(Tail(ss))

Contains(ss, x) == \E i \in 1..Len(ss) : ss[i] = x

(***************************************************************************)
(* Annotations (core.rs): AnnotationParser.                                *)
(***************************************************************************)
FORSETI_IGNORE == <<"f","o","r","s","e","t","i","-","i","g","n","o","r","e">>
DASH_FILE == <<"-","f","i","l","e">>
DASH_NEXT_LINE == <<"-","n","e","x","t","-","l","i","n","e">>

\* the first prefix, in list order, that the trimmed line starts with
FindPrefix(prefixes, trimmed) ==
    IF \E i \in 1..Len(prefixes) : starts_with(trimmed, prefixes[i])
    THEN Some(prefixes[CHOOSE i \in 1..Len(prefixes) :
                  /\ starts_with(trimmed, prefixes[i])
                  /\ \A j \in 1..(i - 1) : ~starts_with(trimmed, prefixes[j])])
    ELSE None

\* Variant of parse_rule_ids that keeps the empty pieces of the list.
parse_rule_ids_keeps_empty(rule_part) ==
    IF rule_part = <<>> THEN <<>>
    ELSE LET pieces == split(rule_part, ",")
         IN [i \in 1..Len(pieces) |-> trim(pieces[i])]

\* parse_line_annotation, the rule ids of rule_part: comma-separated, each
\* piece trimmed, empty pieces dropped
parse_rule_ids(rule_part) ==
    IF rule_part = <<>> THEN <<>>
    ELSE LET pieces == split(rule_part, ",")
         IN SelectNonEmpty([i \in 1..Len(pieces) |-> trim(pieces[i])])

\* AnnotationParser::parse_line_annotation: Option<Annotation>
parse_line_annotation(prefixes, line, line_num) ==
    LET trimmed == trim(line)
        comment_start == FindPrefix(prefixes, trimmed)
    IN IF comment_start = None THEN None
       ELSE
        LET comment_content == trim(strip_prefix(trimmed, comment_start[1])[1])
            ignore_content == strip_prefix(comment_content, FORSETI_IGNORE)
        IN IF ignore_content = None THEN None
           ELSE
            LET remaining == trim(ignore_content[1])
                scope == IF starts_with(remaining, DASH_FILE) THEN "File" ELSE "NextLine"
                rule_part ==
                    IF starts_with(remaining, DASH_FILE)
                    THEN trim(unwrap_or(strip_prefix(remaining, DASH_FILE), <<>>))
                    ELSE IF starts_with(remaining, DASH_NEXT_LINE)
                    THEN trim(unwrap_or(strip_prefix(remaining, DASH_NEXT_LINE), <<>>))
                    ELSE IF remaining = <<>> THEN <<>>
                    ELSE remaining
            IN Some([scope |-> scope, rule_ids |-> parse_rule_ids(rule_part),
                     line |-> line_num])

\* AnnotationParser::parse_annotations: line numbers are 0-based
RECURSIVE ParseFrom(_, _, _)
ParseFrom(prefixes, ls, i) ==
    IF i > Len(ls) THEN <<>>
    ELSE parse_line_annotation(prefixes, ls[i], i - 1) \o ParseFrom(prefixes, ls, i + 1)

parse_annotations(prefixes, text) == ParseFrom(prefixes, lines(text), 1)

\* Variant of AnnotationMatches: a next-line annotation is compared with its
\* own line.
AnnotationMatches_own_line(a, rule_id, line) ==
    IF a.scope = "File"
    THEN a.rule_ids = <<>> \/ Contains(a.rule_ids, rule_id)
    ELSE /\ line = a.line
         /\ (a.rule_ids = <<>> \/ Contains(a.rule_ids, rule_id))

\* one iteration of the loop of should_ignore_rule: TRUE when it returns true
AnnotationMatches(a, rule_id, line) ==
    IF a.scope = "File"
    THEN a.rule_ids = <<>> \/ Contains(a.rule_ids, rule_id)
    ELSE /\ line = a.line + 1
         /\ (a.rule_ids = <<>> \/ Contains(a.rule_ids, rule_id))

\* the loop of should_ignore_rule from annotation i on: true at the first
\* annotation that matches, false when the list is exhausted
RECURSIVE ShouldIgnoreFrom(_, _, _, _)
ShouldIgnoreFrom(annotations, rule_id, line, i) ==
    IF i > Len(annotations) THEN FALSE
    ELSE IF AnnotationMatches(annotations[i], rule_id, line) THEN TRUE
    ELSE ShouldIgnoreFrom(annotations, rule_id, line, i + 1)

\* AnnotationParser::should_ignore_rule
should_ignore_rule(annotations, rule_id, line) ==
    ShouldIgnoreFrom(annotations, rule_id, line, 1)

(***************************************************************************)
(* Rules and rulesets (ruleset.rs). A rule is [id, kind]; its check        *)
(* reports one diagnostic for every line of the text that its kind flags,   *)
(* in line order. A diagnostic is [rule_id, line] (line = range.start.line).*)
(***************************************************************************)
RULE_WS == <<"w","s">>
RULE_NX == <<"n","x">>
RULE_LL == <<"l","l">>

\* the lines (0-based numbers, increasing) a rule of this kind flags
Flagged(kind, line) ==
    CASE kind = "trailing_ws" -> line # <<>> /\ line[Len(line)] = " "
      [] kind = "no_x" -> Contains(line, "x")
      [] kind = "long_line" -> Len(line) > 3
      [] OTHER -> FALSE

\* RuleContext::should_ignore_rule: false for a context without a parser
RuleContext_should_ignore_rule(ctx, rule_id, line) ==
    IF ctx.annotation_parser # None
    THEN should_ignore_rule(ctx.annotations, rule_id, line)
    ELSE FALSE

\* Variant of report: the diagnostic is pushed without consulting the parser.
report_unmasked(ctx, d) == [ctx EXCEPT !.diagnostics = Append(@, d)]

\* RuleContext::report: the single funnel that applies annotation masking
report(ctx, d) ==
    IF /\ ctx.annotation_parser # None
       /\ should_ignore_rule(ctx.annotations, d.rule_id, d.line)
    THEN ctx
    ELSE [ctx EXCEPT !.diagnostics = Append(@, d)]

\* Rule::check of a rule: report() for each flagged line of ctx.text
RECURSIVE CheckFrom(_, _, _, _)
CheckFrom(rule, ctx, ls, i) ==
    IF i > Len(ls) THEN ctx
    ELSE IF Flagged(rule.kind, ls[i])
    THEN CheckFrom(rule, report(ctx, [rule_id |-> rule.id, line |-> i - 1]), ls, i + 1)
    ELSE CheckFrom(rule, ctx, ls, i + 1)

check(rule, ctx) == CheckFrom(rule, ctx, lines(ctx.text), 1)

\* Variant of options_get: a rule without an entry runs with empty options.
options_get_or_default(options, id) ==
    Some(IF id \in DOMAIN options THEN options[id] ELSE EmptyObj)

\* options.get(r.id()): Some(opts) when the rule id is a key of options
options_get(options, id) == IF id \in DOMAIN options THEN Some(options[id]) ELSE None

\* the body of the loop over rs.rules, from rule i on: acc is [all, calls],
\* where calls records every invocation of Rule::check as [uri, rule_id]
RECURSIVE RunRules(_, _, _, _, _, _, _, _)
RunRules(uri, text, rules, options, annotations, annotation_parser, i, acc) ==
    IF i > Len(rules) THEN acc
    ELSE IF options_get(options, rules[i].id) # None
    THEN LET ctx == check(rules[i],
                          [uri |-> uri, text |-> text,
                           options |-> options_get(options, rules[i].id)[1],
                           diagnostics |-> <<>>, annotations |-> annotations,
                           annotation_parser |-> annotation_parser])
         IN RunRules(uri, text, rules, options, annotations, annotation_parser, i + 1,
                     [all |-> acc.all \o ctx.diagnostics,
                      calls |-> Append(acc.calls, [uri |-> uri, rule_id |-> rules[i].id])])
    ELSE RunRules(uri, text, rules, options, annotations, annotation_parser, i + 1, acc)

\* Variant of the loop over rs.rules: the rules share one diagnostics list,
\* so each rule's context starts with what the earlier rules reported.
RECURSIVE RunRulesSharedList(_, _, _, _, _, _, _, _)
RunRulesSharedList(uri, text, rules, options, annotations, annotation_parser, i, acc) ==
    IF i > Len(rules) THEN acc
    ELSE IF options_get(options, rules[i].id) # None
    THEN LET ctx == check(rules[i],
                          [uri |-> uri, text |-> text,
                           options |-> options_get(options, rules[i].id)[1],
                           diagnostics |-> acc.all, annotations |-> annotations,
                           annotation_parser |-> annotation_parser])
         IN RunRulesSharedList(uri, text, rules, options, annotations, annotation_parser, i + 1,
                     [all |-> acc.all \o ctx.diagnostics,
                      calls |-> Append(acc.calls, [uri |-> uri, rule_id |-> rules[i].id])])
    ELSE RunRulesSharedList(uri, text, rules, options, annotations, annotation_parser, i + 1, acc)

\* Variant of run_ruleset_with_annotations over the shared list.
run_ruleset_with_annotations_shared_list(uri, text, rs, options, annotations, annotation_parser) ==
    RunRulesSharedList(uri, text, rs.rules, options, annotations, annotation_parser, 1,
                       [all |-> <<>>, calls |-> <<>>])

\* run_ruleset_with_annotations
run_ruleset_with_annotations(uri, text, rs, options, annotations, annotation_parser) ==
    RunRules(uri, text, rs.rules, options, annotations, annotation_parser, 1,
             [all |-> <<>>, calls |-> <<>>])

\* run_ruleset
run_ruleset(uri, text, rs, options) ==
    run_ruleset_with_annotations(uri, text, rs, options, <<>>, None)

\* the file system as load_file_content sees it: a file that cannot be read
\* gives Err, which the caller turns into the empty string
URI_A == "file:///a"
URI_B == "file:///b"
URI_MISSING == "file:///missing"
TEXT_ON_DISK == <<"x"," ","\n">>
load_file_content(uri) == IF uri = URI_B THEN Some(TEXT_ON_DISK) ELSE None

\* run_ruleset_with_context_and_annotations, from file k on
RECURSIVE RunFiles(_, _, _, _, _, _)
RunFiles(rs, files, options, annotation_parser, k, acc) ==
    IF k > Len(files) THEN acc
    ELSE LET content == IF files[k].content = <<>>
                        THEN unwrap_or(load_file_content(files[k].uri), <<>>)
                        ELSE files[k].content
             annotations == IF annotation_parser # None
                            THEN parse_annotations(annotation_parser[1].prefixes, content)
                            ELSE <<>>
         IN RunFiles(rs, files, options, annotation_parser, k + 1,
                     RunRules(files[k].uri, content, rs.rules, options, annotations,
                              annotation_parser, 1, acc))

run_ruleset_with_context_and_annotations(rs, preprocessing_context, options, annotation_parser) ==
    RunFiles(rs, preprocessing_context.files, options, annotation_parser, 1,
             [all |-> <<>>, calls |-> <<>>])

\* run_ruleset_with_context
run_ruleset_with_context(rs, preprocessing_context, options) ==
    run_ruleset_with_context_and_annotations(rs, preprocessing_context, options, None)

(***************************************************************************)
(* The collaborators an engine supplies (EngineOptions, RulesetOptions):   *)
(* the rulesets it can load, its capabilities, its default configuration.  *)
(***************************************************************************)
RS_BASIC == [id |-> "basic",
             rules |-> <<[id |-> RULE_WS, kind |-> "trailing_ws"],
                         [id |-> RULE_NX, kind |-> "no_x"]>>]
RS_EXTRA == [id |-> "extra", rules |-> <<[id |-> RULE_LL, kind |-> "long_line"]>>]

\* EngineOptions::load_ruleset: Err for an id the engine does not know
load_ruleset(id) ==
    CASE id = "basic" -> Some(RS_BASIC)
      [] id = "extra" -> Some(RS_EXTRA)
      [] OTHER -> None

\* EngineOptions::list_rulesets
list_rulesets == <<"basic", "extra">>

\* EngineOptions::preprocess_files / RulesetOptions::preprocess_files:
\* Err when one of the files cannot be read
preprocess_files(file_uris) ==
    IF Contains(file_uris, URI_MISSING) THEN None
    ELSE Some([ruleset_id |-> "basic",
               files |-> [i \in 1..Len(file_uris) |->
                              [uri |-> file_uris[i], content |-> <<>>]]])

\* EngineConfig::default()
EngineConfigDefault == [enabled |-> None, rulesets |-> None]

OPT_M == JObj([k \in {<<"m">>} |-> JNum(1)])

\* The engines of the model: what get_capabilities().annotation_prefixes and
\* get_default_config() return.
ENGINE_A == [annotation_prefixes |-> << <<"/","/">>, <<"#">> >>,
             default_config |-> EngineConfigDefault]
ENGINE_B == [annotation_prefixes |-> <<>>,
             default_config |->
                 [enabled |-> Some(TRUE),
                  rulesets |-> Some([k \in {"basic"} |->
                      JObj([r \in {RULE_WS, RULE_NX} |-> JStr("warn")])])]]
ENGINE_OPTIONS == {ENGINE_A, ENGINE_B}

\* Rule::default_config (the trait's default)
rule_default_config(rule) == JStr("warn")

\* RulesetOptions::create_ruleset
create_ruleset == RS_BASIC

\* RulesetOptions::get_default_config: every rule's default_config
ruleset_default_config ==
    LET rs == create_ruleset
    IN [r \in {rs.rules[i].id : i \in 1..Len(rs.rules)} |->
           rule_default_config(CHOOSE x \in {rs.rules[i] : i \in 1..Len(rs.rules)} : x.id = r)]

(***************************************************************************)
(* Configuration (engine.rs).                                              *)
(***************************************************************************)
\* Variant of option_or: the first option is not looked at.
option_or_second(a, b) == b

\* Option::or
option_or(a, b) == IF a # None THEN a ELSE b

\* Variant of InsertAll: an entry base already has is kept.
InsertAll_keeps_base(base, over) ==
    [k \in (DOMAIN base) \cup (DOMAIN over) |->
        IF k \in DOMAIN base THEN base[k] ELSE over[k]]

\* HashMap::insert of every entry of over into base
InsertAll(base, over) ==
    [k \in (DOMAIN base) \cup (DOMAIN over) |->
        IF k \in DOMAIN over THEN over[k] ELSE base[k]]

\* merge_engine_config
merge_engine_config(defaults, user) ==
    LET enabled == option_or(option_or(user.enabled, defaults.enabled), Some(TRUE))
        rulesets == unwrap_or(defaults.rulesets, <<>>)
    IN [enabled |-> enabled,
        rulesets |-> Some(IF user.rulesets # None
                          THEN InsertAll(rulesets, user.rulesets[1])
                          ELSE rulesets)]

\* Variant of rule_setting: the level of an array setting is not looked at.
rule_setting_ignores_level(setting) ==
    IF as_str(setting) # None
    THEN IF as_str(setting)[1] = "off" THEN None ELSE Some(EmptyObj)
    ELSE IF is_array(setting) THEN Some(unwrap_or(get_index(setting, 1), EmptyObj))
    ELSE IF is_object(setting) THEN Some(setting)
    ELSE None

\* The per-rule tri-form of on_initialize: what one rule's setting inserts
\* into the active options map (None: nothing is inserted)
rule_setting(setting) ==
    IF as_str(setting) # None
    THEN IF as_str(setting)[1] = "off" THEN None ELSE Some(EmptyObj)
    ELSE IF is_array(setting)
    THEN LET rule_opts == unwrap_or(get_index(setting, 1), EmptyObj)
             level == get_index(setting, 0)
         IN IF level # None /\ as_str(level[1]) = Some("off") THEN None ELSE Some(rule_opts)
    ELSE IF is_object(setting) THEN Some(setting)
    ELSE None

\* The active options map on_initialize builds from one ruleset's entry
active_config(cfg_entry) ==
    IF is_object(cfg_entry)
    THEN LET obj == cfg_entry.val
         IN [r \in {k \in DOMAIN obj : rule_setting(obj[k]) # None} |-> rule_setting(obj[r])[1]]
    ELSE <<>>

\* serde_json::from_value::<EngineConfig>(payload.engineConfig or {}), or the
\* default when the value does not deserialize
user_engine_config(payload) ==
    IF payload.engineConfig = None THEN EngineConfigDefault
    ELSE IF ~payload.engineConfig[1].valid THEN EngineConfigDefault
    ELSE [enabled |-> payload.engineConfig[1].enabled,
          rulesets |-> payload.engineConfig[1].rulesets]

(***************************************************************************)
(* Envelopes (core.rs) and the lines a server reads.                       *)
(***************************************************************************)
PROTOCOL_VERSION == 1

\* Envelope::res
EnvelopeRes(typ, id, payload) ==
    [v |-> PROTOCOL_VERSION, kind |-> "res", typ |-> typ, id |-> Some(id),
     payload |-> Some(payload)]

\* Envelope::event
EnvelopeEvent(typ, payload) ==
    [v |-> PROTOCOL_VERSION, kind |-> "event", typ |-> typ, id |-> None,
     payload |-> Some(payload)]

\* A payload object: every key the handlers look up, None when absent
Payload(engineConfig, rulesetConfig, uri, content, fileUris) ==
    [engineConfig |-> engineConfig, rulesetConfig |-> rulesetConfig, uri |-> uri,
     content |-> content, fileUris |-> fileUris]
EmptyPayload == Payload(None, None, None, None, None)

\* A per-rule settings object with every form of the tri-form; the keys
\* that are no rule of a ruleset are settings like any other
KEY_A == <<"a">>
KEY_B == <<"b">>
KEY_C == <<"c">>
KEY_D == <<"d">>
SETTINGS_ALL ==
    JObj([r \in {RULE_WS, RULE_NX, RULE_LL, KEY_A, KEY_B, KEY_C, KEY_D} |->
             CASE r = RULE_WS -> JStr("off")
               [] r = RULE_NX -> JStr("warn")
               [] r = RULE_LL -> JArr(<<JStr("off"), OPT_M>>)
               [] r = KEY_A -> JArr(<<JStr("error"), OPT_M>>)
               [] r = KEY_B -> JArr(<<JStr("warn")>>)
               [] r = KEY_C -> OPT_M
               [] OTHER -> JNum(5)])
SETTINGS_WARN == JObj([r \in {RULE_WS, RULE_NX} |->
                          IF r = RULE_WS THEN JStr("warn") ELSE JStr("error")])

EngineCfgJson(enabled, rulesets) ==
    Some([valid |-> TRUE, enabled |-> enabled, rulesets |-> rulesets])

INIT_PAYLOADS ==
    { EmptyPayload,
      Payload(EngineCfgJson(None, Some([k \in {"basic"} |-> SETTINGS_ALL])),
              Some(SETTINGS_ALL), None, None, None),
      Payload(EngineCfgJson(Some(FALSE),
                  Some([k \in {"basic", "extra"} |->
                           IF k = "basic" THEN SETTINGS_WARN ELSE JStr("all")])),
              Some(JStr("all")), None, None, None),
      Payload(EngineCfgJson(None, Some([k \in {"basic", "bad"} |->
                           IF k = "basic" THEN SETTINGS_ALL ELSE EmptyObj])),
              None, None, None, None),
      Payload(Some([valid |-> FALSE, enabled |-> None, rulesets |-> None]),
              Some(SETTINGS_WARN), None, None, None) }

\* "x \ny\n"
TEXT_WS == <<"x"," ","\n","y","\n">>
\* "//forseti-ignore ws\nx \ny \n"
TEXT_NEXT == <<"/","/">> \o FORSETI_IGNORE \o <<" ","w","s","\n","x"," ","\n","y"," ","\n">>
\* "# forseti-ignore-file\nabcd \n"
TEXT_FILE == <<"#"," ">> \o FORSETI_IGNORE \o DASH_FILE \o <<"\n","a","b","c","d"," ","\n">>

TEXTS == {TEXT_WS, TEXT_NEXT, TEXT_FILE}

ANALYZE_PAYLOADS == {Payload(None, None, Some(URI_A), Some(t), None) : t \in TEXTS}

PREPROCESS_PAYLOADS ==
    { Payload(None, None, None, None, Some(<<URI_A>>)),
      Payload(None, None, None, None, Some(<<URI_A, URI_MISSING>>)) }

\* One stdin line. cls: "eof" (stdin closed), "garbage" (not JSON), "json".
\* For a JSON line: env_ok says whether it has the v and kind fields of an
\* Envelope, typ and id are its "type" and "id" strings when present
\* (id 0 stands for the empty string).
Line(cls, env_ok, typ, id, payload) ==
    [cls |-> cls, env_ok |-> env_ok, typ |-> typ, id |-> id, payload |-> payload]

\* a request as the host writes it (Envelope::req), with request id n
Req(typ, n, payload) == Line("json", TRUE, Some(typ), Some(n), Some(payload))

KNOWN_TYPES == {"initialize", "shutdown", "getDefaultConfig", "getCapabilities",
                "preprocessFiles", "analyzeFile"}

\* The lines that can be the n-th line on stdin
LinesOfType(typ, n) ==
    CASE typ = "initialize" -> {Req(typ, n, p) : p \in INIT_PAYLOADS}
      [] typ = "analyzeFile" -> {Req(typ, n, p) : p \in ANALYZE_PAYLOADS}
      [] typ = "preprocessFiles" -> {Req(typ, n, p) : p \in PREPROCESS_PAYLOADS}
      [] typ \in {"shutdown", "getDefaultConfig", "getCapabilities"} ->
             {Line("json", TRUE, Some(typ), Some(n), None)}
      [] typ = "unknown" -> {Req("futureOp", n, EmptyPayload),
                             Line("json", FALSE, None, None, None)}
      [] typ = "garbage" -> {Line("garbage", FALSE, None, None, None)}
      [] typ = "eof" -> {Line("eof", FALSE, None, None, None)}

(***************************************************************************)
(* State.                                                                  *)
(***************************************************************************)
VARIABLES
    server,       \* "engine": EngineServer, "ruleset": RulesetServer
    opts,         \* the server's opts (EngineOptions / RulesetOptions)
    initialized,  \* EngineServer.initialized / RulesetServer.initialized
    cfg,          \* EngineServer.cfg
    loaded,       \* EngineServer.loaded: ruleset id -> Loaded{ruleset, config}
    config,       \* RulesetServer.config: rule id -> setting
    ruleset,      \* RulesetServer.ruleset: Option<Ruleset>
    status,       \* run_stdio: "running", "exit_ok" (Ok(())), "exit_err" (Err)
    out,          \* the envelopes written to stdout, in order
    reqs,         \* history: one record per line read from stdin
    rt_in,        \* inputs of a direct call of the ruleset runtime
    rt_out,       \* what that call returned
    engines,      \* EngineManager.engines: engine id -> EngineHandle
    own,          \* an EngineHandle its creator holds outside a manager (Option)
    procs,        \* the child processes spawned so far, with their pipes
    now,          \* the clock Instant::now() reads
    ret           \* history: the last host call and what it returned

serverVars == <<server, opts, initialized, cfg, loaded, config, ruleset, status, out, reqs>>
rtVars == <<rt_in, rt_out>>
hostVars == <<engines, own, procs, now, ret>>
vars == <<serverVars, rtVars, hostVars>>

\* the fields of the server object that a handler can change
ServerState == <<initialized, cfg, loaded, config, ruleset>>

RtIdle == /\ rt_in = [fn |-> "none"]
          /\ rt_out = [fn |-> "none"]

\* EngineManager::new, before any call: no engine, no child process
HostIdle ==
    /\ engines = <<>>
    /\ own = <<>>
    /\ procs = <<>>
    /\ now = 0
    /\ ret = [n |-> 0, op |-> "none"]

\* EngineServer::new / RulesetServer::new
Init ==
    /\ server \in {"engine", "ruleset"}
    /\ opts \in ENGINE_OPTIONS
    /\ initialized = FALSE
    /\ cfg = EngineConfigDefault
    /\ loaded = <<>>
    /\ config = <<>>
    /\ ruleset = None
    /\ status = "running"
    /\ out = <<>>
    /\ reqs = <<>>
    /\ RtIdle
    /\ HostIdle

\* the read loop reads one more line
CanRead(kind) == server = kind /\ status = "running" /\ Len(reqs) < MaxLines

NextId == Len(reqs) + 1

\* History of the line just handled: the state before and after, and the
\* slice of out it wrote (from+1 .. to); calls lists the Rule::check invocations
Record(line, calls) ==
    reqs' = Append(reqs, [line |-> line,
                          init_before |-> initialized,
                          init_after |-> initialized',
                          same_state |-> (ServerState' = ServerState),
                          alive_after |-> (status' = "running"),
                          from |-> Len(out),
                          to |-> Len(out'),
                          calls |-> calls])

\* Ndjson::send of each envelope of msgs, in order
Send(msgs) == out' = out \o msgs

\* EngineServer::run_stdio reads type and id off the raw JSON value
EngineTyp(line) == unwrap_or(line.typ, "")
EngineId(line) == unwrap_or(line.id, 0)
EnginePayload(line) == unwrap_or(line.payload, EmptyPayload)

\* Variant of LoadedFor: on_initialize without self.loaded.clear(), the
\* rulesets of an earlier initialize stay stored.
LoadedFor_keeps_earlier(rs_map, ids) ==
    [k \in ids \cup DOMAIN loaded |->
        IF k \in ids
        THEN [ruleset |-> load_ruleset(k)[1], config |-> active_config(rs_map[k])]
        ELSE loaded[k]]

(***************************************************************************)
(* EngineServer (engine.rs).                                               *)
(***************************************************************************)
\* Loaded entries for the ruleset ids in ids, from the merged configuration
LoadedFor(rs_map, ids) ==
    [k \in ids |-> [ruleset |-> load_ruleset(k)[1], config |-> active_config(rs_map[k])]]

\* EngineServer::on_initialize. The loop visits the entries of the HashMap in
\* an arbitrary order and returns Err at the first ruleset that fails to load:
\* any set of loadable rulesets may have been stored before that.
EngineServer_on_initialize ==
    /\ CanRead("engine")
    /\ \E line \in LinesOfType("initialize", NextId) :
         LET merged == merge_engine_config(opts.default_config,
                                           user_engine_config(EnginePayload(line)))
             rs_map == merged.rulesets[1]
             good == {k \in DOMAIN rs_map : load_ruleset(k) # None}
         IN /\ cfg' = merged
            /\ IF good = DOMAIN rs_map
               THEN /\ loaded' = LoadedFor(rs_map, good)
                    /\ Send(<<EnvelopeRes("initialize", EngineId(line), [ok |-> TRUE])>>)
                    /\ initialized' = TRUE
                    /\ status' = status
               ELSE /\ \E before \in SUBSET good : loaded' = LoadedFor(rs_map, before)
                    /\ Send(<<>>)
                    /\ initialized' = initialized
                    /\ status' = "exit_err"
            /\ UNCHANGED <<server, opts, config, ruleset, rtVars, hostVars>>
            /\ Record(line, <<>>)

\* EngineServer::on_shutdown
EngineServer_on_shutdown ==
    /\ CanRead("engine")
    /\ \E line \in LinesOfType("shutdown", NextId) :
         /\ initialized' = FALSE
         /\ loaded' = <<>>
         /\ Send(<<EnvelopeRes("shutdown", EngineId(line), [ok |-> TRUE])>>)
         /\ UNCHANGED <<server, opts, cfg, config, ruleset, status, rtVars, hostVars>>
         /\ Record(line, <<>>)

\* EngineServer::on_get_default_config
EngineServer_on_get_default_config ==
    /\ CanRead("engine")
    /\ \E line \in LinesOfType("getDefaultConfig", NextId) :
         /\ Send(<<EnvelopeRes("getDefaultConfig", EngineId(line),
                               [config |-> opts.default_config])>>)
         /\ UNCHANGED <<server, opts, initialized, cfg, loaded, config, ruleset, status, rtVars, hostVars>>
         /\ Record(line, <<>>)

\* Ruleset::info
info(rs) == [id |-> rs.id, rules |-> [i \in 1..Len(rs.rules) |-> rs.rules[i].id]]

\* filter_map over list_rulesets: the info of every ruleset that loads
RECURSIVE RulesetInfos(_)
RulesetInfos(ids) ==
    IF ids = <<>> THEN <<>>
    ELSE (IF load_ruleset(Head(ids)) # None THEN <<info(load_ruleset(Head(ids))[1])>> ELSE <<>>)
         \o RulesetInfos(Tail(ids))

\* EngineServer::on_get_capabilities
EngineServer_on_get_capabilities ==
    /\ CanRead("engine")
    /\ \E line \in LinesOfType("getCapabilities", NextId) :
         /\ Send(<<EnvelopeRes("getCapabilities", EngineId(line),
                               [annotation_prefixes |-> opts.annotation_prefixes,
                                rulesets |-> RulesetInfos(list_rulesets)])>>)
         /\ UNCHANGED <<server, opts, initialized, cfg, loaded, config, ruleset, status, rtVars, hostVars>>
         /\ Record(line, <<>>)

\* payload.fileUris as a list of strings, empty when absent
FileUris(payload) == unwrap_or(payload.fileUris, <<>>)

\* EngineServer::on_preprocess_files
EngineServer_on_preprocess_files ==
    /\ CanRead("engine")
    /\ \E line \in LinesOfType("preprocessFiles", NextId) :
         LET context == preprocess_files(FileUris(EnginePayload(line)))
         IN /\ IF context # None
               THEN Send(<<EnvelopeRes("preprocessFiles", EngineId(line),
                                       [context |-> context[1]])>>)
               ELSE Send(<<EnvelopeRes("preprocessFiles", EngineId(line),
                                       [ok |-> FALSE, error |-> "preprocess"])>>)
            /\ UNCHANGED <<server, opts, initialized, cfg, loaded, config, ruleset, status, rtVars, hostVars>>
            /\ Record(line, <<>>)

\* all orders in which the keys of a HashMap can be visited
Orders(S) == {o \in [1..Cardinality(S) -> S] : \A i, j \in 1..Cardinality(S) : o[i] = o[j] => i = j}

\* the loop over self.loaded.values() of on_analyze_file, in the order o
RECURSIVE AnalyzeLoaded(_, _, _, _, _, _, _, _)
AnalyzeLoaded(ld, o, i, uri, content, annotations, annotation_parser, acc) ==
    IF i > Len(o) THEN acc
    ELSE LET r == run_ruleset_with_annotations(uri, content, ld[o[i]].ruleset, ld[o[i]].config,
                                               annotations, annotation_parser)
         IN AnalyzeLoaded(ld, o, i + 1, uri, content, annotations, annotation_parser,
                          [all |-> acc.all \o r.all, calls |-> acc.calls \o r.calls])

\* Variant of EngineServer_not_initialized: an empty diagnostics event is
\* sent before the error response.
EngineServer_not_initialized_with_event(id) ==
    <<EnvelopeEvent("diagnostics", [uri |-> "", diagnostics |-> <<>>]),
      EnvelopeRes("analyzeFile", id, [ok |-> FALSE, error |-> "not_initialized"])>>

\* EngineServer::on_analyze_file, not initialized: the response alone
EngineServer_not_initialized(id) ==
    <<EnvelopeRes("analyzeFile", id, [ok |-> FALSE, error |-> "not_initialized"])>>

\* Variant of EngineServer_analyzed: the response is sent before the event.
EngineServer_analyzed_response_first(id, uri, diagnostics) ==
    <<EnvelopeRes("analyzeFile", id, [ok |-> TRUE]),
      EnvelopeEvent("diagnostics", [uri |-> uri, diagnostics |-> diagnostics])>>

\* EngineServer::on_analyze_file, the two sends that end it
EngineServer_analyzed(id, uri, diagnostics) ==
    <<EnvelopeEvent("diagnostics", [uri |-> uri, diagnostics |-> diagnostics]),
      EnvelopeRes("analyzeFile", id, [ok |-> TRUE])>>

\* EngineServer::on_analyze_file
EngineServer_on_analyze_file ==
    /\ CanRead("engine")
    /\ \E line \in LinesOfType("analyzeFile", NextId) :
         /\ UNCHANGED <<server, opts, initialized, cfg, loaded, config, ruleset, status, rtVars, hostVars>>
         /\ IF ~initialized
            THEN /\ Send(EngineServer_not_initialized(EngineId(line)))
                 /\ Record(line, <<>>)
            ELSE LET payload == EnginePayload(line)
                     uri == unwrap_or(payload.uri, "")
                     content == unwrap_or(payload.content, <<>>)
                     annotation_parser ==
                         IF opts.annotation_prefixes # <<>>
                         THEN Some([prefixes |-> opts.annotation_prefixes])
                         ELSE None
                     annotations ==
                         IF annotation_parser # None
                         THEN parse_annotations(annotation_parser[1].prefixes, content)
                         ELSE <<>>
                 IN \E o \in Orders(DOMAIN loaded) :
                      LET r == AnalyzeLoaded(loaded, o, 1, uri, content, annotations,
                                             annotation_parser, [all |-> <<>>, calls |-> <<>>])
                      IN /\ Send(EngineServer_analyzed(EngineId(line), uri, r.all))
                         /\ Record(line, r.calls)

\* EngineServer::run_stdio, the arm for any other type: a log event
EngineServer_unhandled ==
    /\ CanRead("engine")
    /\ \E line \in LinesOfType("unknown", NextId) :
         /\ EngineTyp(line) \notin KNOWN_TYPES
         /\ Send(<<EnvelopeEvent("log", [level |-> "warn", message |-> EngineTyp(line)])>>)
         /\ UNCHANGED <<server, opts, initialized, cfg, loaded, config, ruleset, status, rtVars, hostVars>>
         /\ Record(line, <<>>)

\* EngineServer::run_stdio when read_line_value returns Err (stdin closed, or
\* a line that is not JSON): `while let Ok(v)` ends the loop and run_stdio
\* returns Ok(())
EngineServer_read_err ==
    /\ CanRead("engine")
    /\ \E line \in LinesOfType("eof", NextId) \cup LinesOfType("garbage", NextId) :
         /\ status' = "exit_ok"
         /\ Send(<<>>)
         /\ UNCHANGED <<server, opts, initialized, cfg, loaded, config, ruleset, rtVars, hostVars>>
         /\ Record(line, <<>>)

(***************************************************************************)
(* RulesetServer (ruleset.rs).                                             *)
(***************************************************************************)
\* serde_json::from_value::<Envelope>(msg) succeeds
IsEnvelope(line) == line.cls = "json" /\ line.env_ok /\ line.typ # None

RulesetId(line) == unwrap_or(line.id, 0)
RulesetPayload(line) == unwrap_or(line.payload, EmptyPayload)

\* payload.get("rulesetConfig").and_then(|v| v.as_object())
ruleset_config_object(payload) ==
    IF payload.rulesetConfig # None /\ is_object(payload.rulesetConfig[1])
    THEN Some(payload.rulesetConfig[1].val)
    ELSE None

\* RulesetServer::on_initialize
RulesetServer_on_initialize ==
    /\ CanRead("ruleset")
    /\ \E line \in LinesOfType("initialize", NextId) :
         LET obj == ruleset_config_object(RulesetPayload(line))
         IN /\ config' = IF obj # None THEN obj[1] ELSE ruleset_default_config
            /\ ruleset' = Some(create_ruleset)
            /\ initialized' = TRUE
            /\ Send(<<EnvelopeRes("initialize", RulesetId(line), [ok |-> TRUE])>>)
            /\ UNCHANGED <<server, opts, cfg, loaded, status, rtVars, hostVars>>
            /\ Record(line, <<>>)

\* RulesetServer::on_shutdown
RulesetServer_on_shutdown ==
    /\ CanRead("ruleset")
    /\ \E line \in LinesOfType("shutdown", NextId) :
         /\ Send(<<EnvelopeRes("shutdown", RulesetId(line), [ok |-> TRUE])>>)
         /\ UNCHANGED <<server, opts, initialized, cfg, loaded, config, ruleset, status, rtVars, hostVars>>
         /\ Record(line, <<>>)

\* RulesetServer::on_get_default_config
RulesetServer_on_get_default_config ==
    /\ CanRead("ruleset")
    /\ \E line \in LinesOfType("getDefaultConfig", NextId) :
         /\ Send(<<EnvelopeRes("getDefaultConfig", RulesetId(line),
                               [config |-> ruleset_default_config])>>)
         /\ UNCHANGED <<server, opts, initialized, cfg, loaded, config, ruleset, status, rtVars, hostVars>>
         /\ Record(line, <<>>)

\* RulesetServer::on_get_capabilities: the rules of the ruleset and one
\* injected ConfigSetting per rule
RulesetServer_on_get_capabilities ==
    /\ CanRead("ruleset")
    /\ \E line \in LinesOfType("getCapabilities", NextId) :
         LET rs == create_ruleset
         IN /\ Send(<<EnvelopeRes("getCapabilities", RulesetId(line),
                         [annotation_prefixes |-> opts.annotation_prefixes,
                          rules |-> [i \in 1..Len(rs.rules) |-> rs.rules[i].id],
                          config_settings |->
                              [i \in 1..Len(rs.rules) |->
                                  [name |-> rs.rules[i].id,
                                   default |-> rule_default_config(rs.rules[i])]]])>>)
            /\ UNCHANGED <<server, opts, initialized, cfg, loaded, config, ruleset, status, rtVars, hostVars>>
            /\ Record(line, <<>>)

\* RulesetServer::on_preprocess_files: `?` on the Err of preprocess_files
\* leaves run_stdio without a response
RulesetServer_on_preprocess_files ==
    /\ CanRead("ruleset")
    /\ \E line \in LinesOfType("preprocessFiles", NextId) :
         LET context == preprocess_files(FileUris(RulesetPayload(line)))
         IN /\ IF context # None
               THEN /\ Send(<<EnvelopeRes("preprocessFiles", RulesetId(line),
                                          [context |-> context[1]])>>)
                    /\ status' = status
               ELSE /\ Send(<<>>)
                    /\ status' = "exit_err"
            /\ UNCHANGED <<server, opts, initialized, cfg, loaded, config, ruleset, rtVars, hostVars>>
            /\ Record(line, <<>>)

\* RulesetServer::on_analyze_file, not initialized: the response alone
RulesetServer_not_initialized(id) ==
    <<EnvelopeRes("analyzeFile", id, [ok |-> FALSE, error |-> "not_initialized"])>>

\* RulesetServer::on_analyze_file
RulesetServer_on_analyze_file ==
    /\ CanRead("ruleset")
    /\ \E line \in LinesOfType("analyzeFile", NextId) :
         /\ UNCHANGED <<server, opts, initialized, cfg, loaded, config, ruleset, status, rtVars, hostVars>>
         /\ IF ~initialized
            THEN /\ Send(RulesetServer_not_initialized(RulesetId(line)))
                 /\ Record(line, <<>>)
            ELSE LET payload == RulesetPayload(line)
                     uri == unwrap_or(payload.uri, "")
                     content == unwrap_or(payload.content, <<>>)
                 IN IF ruleset # None
                    THEN LET r == run_ruleset(uri, content, ruleset[1], config)
                         IN /\ Send(<<EnvelopeEvent("diagnostics",
                                                    [uri |-> uri, diagnostics |-> r.all]),
                                      EnvelopeRes("analyzeFile", RulesetId(line), [ok |-> TRUE])>>)
                            /\ Record(line, r.calls)
                    ELSE /\ Send(<<EnvelopeRes("analyzeFile", RulesetId(line), [ok |-> TRUE])>>)
                         /\ Record(line, <<>>)

\* RulesetServer::run_stdio on a line that is JSON but no Envelope (`?` on
\* from_value), or an Envelope of an unknown type: run_stdio returns Err
RulesetServer_unhandled ==
    /\ CanRead("ruleset")
    /\ \E line \in LinesOfType("unknown", NextId) :
         /\ IF IsEnvelope(line) THEN line.typ[1] \notin KNOWN_TYPES ELSE TRUE
         /\ status' = "exit_err"
         /\ Send(<<>>)
         /\ UNCHANGED <<server, opts, initialized, cfg, loaded, config, ruleset, rtVars, hostVars>>
         /\ Record(line, <<>>)

\* RulesetServer::run_stdio when read_line_value returns Err: UnexpectedEof
\* breaks the loop (Ok), any other error is returned
RulesetServer_read_err ==
    /\ CanRead("ruleset")
    /\ \E line \in LinesOfType("eof", NextId) \cup LinesOfType("garbage", NextId) :
         /\ status' = IF line.cls = "eof" THEN "exit_ok" ELSE "exit_err"
         /\ Send(<<>>)
         /\ UNCHANGED <<server, opts, initialized, cfg, loaded, config, ruleset, rtVars, hostVars>>
         /\ Record(line, <<>>)

(***************************************************************************)
(* The servers' specification.                                             *)
(***************************************************************************)
Next ==
    \/ EngineServer_on_initialize
    \/ EngineServer_on_shutdown
    \/ EngineServer_on_get_default_config
    \/ EngineServer_on_get_capabilities
    \/ EngineServer_on_preprocess_files
    \/ EngineServer_on_analyze_file
    \/ EngineServer_unhandled
    \/ EngineServer_read_err
    \/ RulesetServer_on_initialize
    \/ RulesetServer_on_shutdown
    \/ RulesetServer_on_get_default_config
    \/ RulesetServer_on_get_capabilities
    \/ RulesetServer_on_preprocess_files
    \/ RulesetServer_on_analyze_file
    \/ RulesetServer_unhandled
    \/ RulesetServer_read_err

Spec == Init /\ [][Next]_vars

(***************************************************************************)
(* Properties of the servers.                                              *)
(***************************************************************************)
\* the envelopes the server wrote while it handled the i-th line
Written(i) == SubSeq(out, reqs[i].from + 1, reqs[i].to)

\* the i-th line is a request of this type, as a host writes it
IsRequest(i, typ) ==
    /\ reqs[i].line.cls = "json"
    /\ reqs[i].line.env_ok
    /\ reqs[i].line.typ = Some(typ)
    /\ reqs[i].line.id # None

IsRes(m, typ, id) == m.kind = "res" /\ m.typ = typ /\ m.id = id

IsDiagnosticsEvent(m) == m.kind = "event" /\ m.typ = "diagnostics"

\* the response to the i-th line says ok: true
AnsweredOk(i, typ) ==
    \E k \in 1..Len(Written(i)) :
        /\ IsRes(Written(i)[k], typ, reqs[i].line.id)
        /\ Written(i)[k].payload[1].ok

\* the normal answer to analyzeFile: one diagnostics event, then the response
NormalAnalysis(i) ==
    /\ Len(Written(i)) = 2
    /\ IsDiagnosticsEvent(Written(i)[1])
    /\ IsRes(Written(i)[2], "analyzeFile", reqs[i].line.id)
    /\ Written(i)[2].payload[1] = [ok |-> TRUE]

\* C1: every initialize, analyzeFile and shutdown request that was read is
\* answered by exactly one res envelope of its type and id, and no other
\* envelope of the stream carries that type and id.
C1_ProtocolCorrelation ==
    \A i \in 1..Len(reqs) :
        \A typ \in {"initialize", "analyzeFile", "shutdown"} :
            IsRequest(i, typ) =>
                /\ Cardinality({k \in 1..Len(out) :
                       out[k].typ = typ /\ out[k].id = reqs[i].line.id}) = 1
                /\ \A k \in 1..Len(out) :
                       (out[k].typ = typ /\ out[k].id = reqs[i].line.id) => out[k].kind = "res"

\* C2: an analyzeFile request read by an initialized server is answered by
\* exactly one diagnostics event followed by its analyzeFile response; no
\* response of the request precedes the event.
C2_DiagnosticsBeforeResponse ==
    \A i \in 1..Len(reqs) :
        (IsRequest(i, "analyzeFile") /\ reqs[i].init_before) =>
            /\ Cardinality({k \in 1..Len(Written(i)) : IsDiagnosticsEvent(Written(i)[k])}) = 1
            /\ Cardinality({k \in 1..Len(Written(i)) :
                   IsRes(Written(i)[k], "analyzeFile", reqs[i].line.id)}) = 1
            /\ \A d, r \in 1..Len(Written(i)) :
                   (/\ IsDiagnosticsEvent(Written(i)[d])
                    /\ IsRes(Written(i)[r], "analyzeFile", reqs[i].line.id)) => d < r
            /\ \A k \in 1..Len(out) :
                   IsRes(out[k], "analyzeFile", reqs[i].line.id) =>
                       k \in (reqs[i].from + 1)..reqs[i].to

\* an initialized server analysed a file and found something
C2_Witness ==
    \E i \in 1..Len(reqs) :
        /\ IsRequest(i, "analyzeFile")
        /\ reqs[i].init_before
        /\ NormalAnalysis(i)
        /\ Written(i)[1].payload[1].diagnostics # <<>>

\* C3: an analyzeFile request read by a server that is not initialized gets the
\* single response {ok: false, error: "not_initialized"} and no event, leaves
\* the server not initialized with its state and its loop as they were, and
\* an analyzeFile that follows a later successful initialize is answered
\* normally.
C3_NotInitialized ==
    \A i \in 1..Len(reqs) :
        (IsRequest(i, "analyzeFile") /\ ~reqs[i].init_before) =>
            /\ Len(Written(i)) = 1
            /\ IsRes(Written(i)[1], "analyzeFile", reqs[i].line.id)
            /\ Written(i)[1].payload[1] = [ok |-> FALSE, error |-> "not_initialized"]
            /\ ~reqs[i].init_after
            /\ reqs[i].same_state
            /\ reqs[i].alive_after
            /\ \A k, j \in 1..Len(reqs) :
                   (/\ i < k /\ j = k + 1
                    /\ IsRequest(k, "initialize") /\ AnsweredOk(k, "initialize")
                    /\ IsRequest(j, "analyzeFile")) => NormalAnalysis(j)

\* analyzeFile before initialize, then a successful initialize, then analyzeFile
C3_Witness ==
    \E i, k, j \in 1..Len(reqs) :
        /\ i < k /\ j = k + 1
        /\ IsRequest(i, "analyzeFile") /\ ~reqs[i].init_before
        /\ IsRequest(k, "initialize") /\ AnsweredOk(k, "initialize")
        /\ IsRequest(j, "analyzeFile") /\ NormalAnalysis(j)
        /\ Written(j)[1].payload[1].diagnostics # <<>>

\* C4: after the response to a shutdown request, the server writes no
\* response and no diagnostics event for any line it reads.
C4_ShutdownTerminal ==
    \A i, j \in 1..Len(reqs) :
        (/\ i < j
         /\ IsRequest(i, "shutdown")
         /\ \E k \in 1..Len(Written(i)) : IsRes(Written(i)[k], "shutdown", reqs[i].line.id)) =>
            \A k \in 1..Len(Written(j)) :
                Written(j)[k].kind # "res" /\ ~IsDiagnosticsEvent(Written(j)[k])

\* C5: an envelope of an unknown type gets no response, leaves the server
\* state as it was, and the read loop goes on.
C5_UnknownTypeIgnored ==
    \A i \in 1..Len(reqs) :
        (/\ reqs[i].line.cls = "json"
         /\ reqs[i].line.env_ok
         /\ reqs[i].line.typ # None
         /\ reqs[i].line.typ[1] \notin KNOWN_TYPES) =>
            /\ \A k \in 1..Len(Written(i)) : Written(i)[k].kind # "res"
            /\ reqs[i].same_state
            /\ reqs[i].alive_after

\* C6: a line that is not JSON, or no envelope, is skipped: the server writes
\* a log event at level warn, keeps its state, and the read loop goes on.
C6_MalformedLineSkipped ==
    \A i \in 1..Len(reqs) :
        (reqs[i].line.cls = "garbage" \/ (reqs[i].line.cls = "json" /\ ~reqs[i].line.env_ok)) =>
            /\ \E k \in 1..Len(Written(i)) :
                   /\ Written(i)[k].kind = "event"
                   /\ Written(i)[k].typ = "log"
                   /\ Written(i)[k].payload[1].level = "warn"
            /\ reqs[i].same_state
            /\ reqs[i].alive_after

\* the merged configuration of the initialize request read as the i-th line
MergedConfigOf(i) ==
    merge_engine_config(opts.default_config, user_engine_config(EnginePayload(reqs[i].line)))

\* some ruleset named in that configuration fails to load
LoadFails(i) ==
    \E k \in DOMAIN MergedConfigOf(i).rulesets[1] : load_ruleset(k) = None

\* C7: when a ruleset named in the merged configuration fails to load, the
\* initialize request is answered by a response with ok: false, no partially
\* loaded ruleset stays stored, and the request does not make the engine
\* initialized.
C7_LoadFailureReported ==
    \A i \in 1..Len(reqs) :
        (server = "engine" /\ IsRequest(i, "initialize") /\ LoadFails(i)) =>
            /\ \E k \in 1..Len(Written(i)) :
                   /\ IsRes(Written(i)[k], "initialize", reqs[i].line.id)
                   /\ ~Written(i)[k].payload[1].ok
            /\ (i = Len(reqs) => loaded = <<>>)
            /\ (reqs[i].init_after => reqs[i].init_before)

\* C8: the active options map of every loaded ruleset follows the tri-form
\* of its per-rule settings object in the merged configuration: "off" leaves
\* the rule out; another string gives {}; an array whose level is "off"
\* leaves the rule out, any other array gives its second element, or {} when
\* it has none; an object gives that object.
C8_TriForm ==
    \A rs \in DOMAIN loaded :
        LET entry == cfg.rulesets[1][rs]
            active == loaded[rs].config
        IN entry.tag = "obj" =>
            \A r \in DOMAIN entry.val :
                LET setting == entry.val[r]
                IN /\ (setting.tag = "str" /\ setting.val = "off") => r \notin DOMAIN active
                   /\ (setting.tag = "str" /\ setting.val # "off") =>
                          (r \in DOMAIN active /\ active[r] = EmptyObj)
                   /\ (setting.tag = "arr" /\ Len(setting.val) >= 1
                          /\ setting.val[1] = JStr("off")) => r \notin DOMAIN active
                   /\ (setting.tag = "arr" /\ ~(Len(setting.val) >= 1
                          /\ setting.val[1] = JStr("off"))) =>
                          /\ r \in DOMAIN active
                          /\ active[r] = IF Len(setting.val) >= 2 THEN setting.val[2] ELSE EmptyObj
                   /\ setting.tag = "obj" => (r \in DOMAIN active /\ active[r] = setting)

\* initialize stored the active options of a settings object with every form
C8_Witness ==
    /\ server = "engine"
    /\ initialized
    /\ "basic" \in DOMAIN loaded
    /\ cfg.rulesets[1]["basic"] = SETTINGS_ALL
    /\ DOMAIN loaded["basic"].config = {RULE_NX, KEY_A, KEY_B, KEY_C}

\* the rules that the configuration of the initialize request read as the
\* i-th line sets to "off"
OffRules(i) ==
    IF server = "engine"
    THEN LET rs_map == MergedConfigOf(i).rulesets[1]
         IN UNION {IF rs_map[k].tag = "obj"
                   THEN {r \in DOMAIN rs_map[k].val : rs_map[k].val[r] = JStr("off")}
                   ELSE {} : k \in DOMAIN rs_map}
    ELSE LET obj == ruleset_config_object(RulesetPayload(reqs[i].line))
         IN IF obj # None THEN {r \in DOMAIN obj[1] : obj[1][r] = JStr("off")} ELSE {}

\* C9: on both servers, after a successful initialize whose configuration
\* sets a rule to "off", no analyzeFile read before the next initialize
\* invokes that rule's check, and its diagnostics event holds no diagnostic of
\* that rule.
C9_OffRuleNeverRuns ==
    \A i, j \in 1..Len(reqs) :
        (/\ i < j
         /\ IsRequest(i, "initialize") /\ AnsweredOk(i, "initialize")
         /\ \A k \in (i + 1)..(j - 1) : ~IsRequest(k, "initialize")
         /\ IsRequest(j, "analyzeFile")) =>
            \A r \in OffRules(i) :
                /\ \A c \in 1..Len(reqs[j].calls) : reqs[j].calls[c].rule_id # r
                /\ \A k \in 1..Len(Written(j)) :
                       IsDiagnosticsEvent(Written(j)[k]) =>
                           \A d \in 1..Len(Written(j)[k].payload[1].diagnostics) :
                               Written(j)[k].payload[1].diagnostics[d].rule_id # r

(***************************************************************************)
(* The ruleset runtime called directly: the inputs are drawn in the        *)
(* initial state, one action per entry point.                              *)
(***************************************************************************)
RS_ALL == [id |-> "all",
           rules |-> <<[id |-> RULE_WS, kind |-> "trailing_ws"],
                       [id |-> RULE_NX, kind |-> "no_x"],
                       [id |-> RULE_LL, kind |-> "long_line"]>>]

RT_RULESETS == {RS_BASIC, RS_EXTRA, RS_ALL}
RT_OPTIONS == UNION {[ids -> {EmptyObj}] : ids \in SUBSET {RULE_WS, RULE_NX, RULE_LL}}
RT_PARSERS == {None, Some([prefixes |-> ENGINE_A.annotation_prefixes])}
RT_CONTEXTS ==
    { [ruleset_id |-> "basic", files |-> <<>>],
      [ruleset_id |-> "basic", files |-> <<[uri |-> URI_A, content |-> TEXT_WS]>>],
      [ruleset_id |-> "basic", files |-> <<[uri |-> URI_A, content |-> TEXT_NEXT],
                                           [uri |-> URI_B, content |-> <<>>]>>],
      [ruleset_id |-> "basic", files |-> <<[uri |-> URI_MISSING, content |-> <<>>]>>] }

ServerIdle ==
    /\ server = "engine"
    /\ opts = ENGINE_A
    /\ initialized = FALSE
    /\ cfg = EngineConfigDefault
    /\ loaded = <<>>
    /\ config = <<>>
    /\ ruleset = None
    /\ status = "running"
    /\ out = <<>>
    /\ reqs = <<>>
    /\ HostIdle

InitRuntime ==
    /\ ServerIdle
    /\ rt_in \in [fn : {"input"}, rs : RT_RULESETS, options : RT_OPTIONS, uri : {URI_A},
                  text : TEXTS, annotation_parser : RT_PARSERS,
                  preprocessing_context : RT_CONTEXTS]
    /\ rt_out = [fn |-> "none"]

Returned(fn, r) == rt_out' = [fn |-> fn, all |-> r.all, calls |-> r.calls]

\* the annotations a caller passes with its parser
RtAnnotations ==
    IF rt_in.annotation_parser # None
    THEN parse_annotations(rt_in.annotation_parser[1].prefixes, rt_in.text)
    ELSE <<>>

Call_run_ruleset ==
    /\ rt_out.fn = "none"
    /\ Returned("run_ruleset", run_ruleset(rt_in.uri, rt_in.text, rt_in.rs, rt_in.options))
    /\ UNCHANGED <<serverVars, hostVars, rt_in>>

Call_run_ruleset_with_annotations ==
    /\ rt_out.fn = "none"
    /\ Returned("run_ruleset_with_annotations",
                run_ruleset_with_annotations(rt_in.uri, rt_in.text, rt_in.rs, rt_in.options,
                                             RtAnnotations, rt_in.annotation_parser))
    /\ UNCHANGED <<serverVars, hostVars, rt_in>>

Call_run_ruleset_with_context ==
    /\ rt_out.fn = "none"
    /\ Returned("run_ruleset_with_context",
                run_ruleset_with_context(rt_in.rs, rt_in.preprocessing_context, rt_in.options))
    /\ UNCHANGED <<serverVars, hostVars, rt_in>>

Call_run_ruleset_with_context_and_annotations ==
    /\ rt_out.fn = "none"
    /\ Returned("run_ruleset_with_context_and_annotations",
                run_ruleset_with_context_and_annotations(
                    rt_in.rs, rt_in.preprocessing_context, rt_in.options,
                    rt_in.annotation_parser))
    /\ UNCHANGED <<serverVars, hostVars, rt_in>>

NextRuntime ==
    \/ Call_run_ruleset
    \/ Call_run_ruleset_with_annotations
    \/ Call_run_ruleset_with_context
    \/ Call_run_ruleset_with_context_and_annotations

SpecRuntime == InitRuntime /\ [][NextRuntime]_vars

(***************************************************************************)
(* Properties of the ruleset runtime.                                      *)
(***************************************************************************)
\* the files a call ran over: the one uri, or the files of the context
RtUris ==
    IF rt_out.fn \in {"run_ruleset", "run_ruleset_with_annotations"}
    THEN <<rt_in.uri>>
    ELSE [k \in 1..Len(rt_in.preprocessing_context.files) |->
             rt_in.preprocessing_context.files[k].uri]

\* how often check was invoked for this rule on this file
CheckCount(uri, rule_id) ==
    Cardinality({c \in 1..Len(rt_out.calls) :
        rt_out.calls[c] = [uri |-> uri, rule_id |-> rule_id]})

\* C10: in every entry point of the runtime, a rule whose id is no key of
\* options is never checked and contributes no diagnostic, and a rule whose
\* id is a key is checked exactly once for each file.
C10_DisabledRuleSkip ==
    rt_out.fn # "none" =>
        /\ \A f \in 1..Len(RtUris) : \A i \in 1..Len(rt_in.rs.rules) :
               CheckCount(RtUris[f], rt_in.rs.rules[i].id) =
                   IF rt_in.rs.rules[i].id \in DOMAIN rt_in.options THEN 1 ELSE 0
        /\ \A d \in 1..Len(rt_out.all) : rt_out.all[d].rule_id \in DOMAIN rt_in.options

\* a run over two files with one rule disabled, one enabled and a finding
C10_Witness ==
    /\ rt_out.fn = "run_ruleset_with_context_and_annotations"
    /\ Len(RtUris) = 2
    /\ rt_in.rs = RS_ALL
    /\ DOMAIN rt_in.options = {RULE_WS, RULE_LL}
    /\ rt_out.all # <<>>
    /\ Len(rt_out.calls) = 4

(***************************************************************************)
(* The annotation parser and the report funnel called directly: the        *)
(* inputs are drawn in the initial state, one action per entry point.      *)
(***************************************************************************)
\* Number of diagnostics one rule reports to its context.
MaxReports == 2

SP == <<" ">>
COMMA == <<",">>
NL == <<"\n">>
SLASH == <<"/">>
SLASHES == <<"/","/">>
HASH == <<"#">>

\* prefix lists of an AnnotationParser; in the last two, one prefix is a
\* prefix of another
AN_PREFIXES == { <<SLASHES, HASH>>, <<SLASH, SLASHES>>, <<SLASHES, SLASH>> }

\* lines of a file
AN_LINES ==
    { SLASHES \o FORSETI_IGNORE,
      SP \o SP \o HASH \o SP \o FORSETI_IGNORE \o DASH_FILE \o SP \o RULE_WS \o COMMA
          \o SP \o RULE_NX,
      SLASHES \o FORSETI_IGNORE \o DASH_NEXT_LINE \o SP \o RULE_WS \o SP,
      SLASHES \o SP \o FORSETI_IGNORE \o SP \o RULE_WS \o COMMA \o COMMA \o RULE_NX
          \o SP \o COMMA,
      <<"x">> \o SP \o SLASHES \o FORSETI_IGNORE,
      SLASHES \o SP \o RULE_WS,
      HASH \o FORSETI_IGNORE \o SP \o COMMA \o SP \o COMMA,
      SLASH \o FORSETI_IGNORE \o SP \o RULE_NX,
      <<"x">> \o SP,
      SLASHES \o FORSETI_IGNORE \o DASH_FILE \o RULE_WS \o <<"\r">> }

\* texts of one or two lines
AN_TEXTS == AN_LINES \cup {l1 \o NL \o l2 : l1, l2 \in AN_LINES}

\* annotation lists as a caller can pass them
AN_SAMPLES ==
    { [scope |-> "File", rule_ids |-> <<>>, line |-> 0],
      [scope |-> "File", rule_ids |-> <<RULE_WS>>, line |-> 2],
      [scope |-> "NextLine", rule_ids |-> <<>>, line |-> 1],
      [scope |-> "NextLine", rule_ids |-> <<RULE_NX, RULE_WS>>, line |-> 0],
      [scope |-> "NextLine", rule_ids |-> <<RULE_NX>>, line |-> 1] }
AN_ANNOTATIONS ==
    {<<>>} \cup {<<a>> : a \in AN_SAMPLES} \cup {<<a, b>> : a, b \in AN_SAMPLES}

AN_RULE_IDS == {RULE_WS, RULE_NX, RULE_LL}
AN_LINE_NUMBERS == 0..3
AN_DIAGNOSTICS == [rule_id : {RULE_WS, RULE_NX}, line : AN_LINE_NUMBERS]

\* the arguments of one call; the fields a function does not take stay at
\* their first value
AnInput(fn, prefixes, text, annotations, rule_id, line, annotation_parser) ==
    [fn |-> fn, prefixes |-> prefixes, text |-> text, annotations |-> annotations,
     rule_id |-> rule_id, line |-> line, annotation_parser |-> annotation_parser]

InitAnnotations ==
    /\ ServerIdle
    /\ rt_out = [fn |-> "none"]
    /\ \/ \E p \in AN_PREFIXES, t \in AN_TEXTS :
            rt_in = AnInput("parse_annotations", p, t, <<>>, RULE_WS, 0, None)
       \/ \E a \in AN_ANNOTATIONS, r \in AN_RULE_IDS, l \in AN_LINE_NUMBERS :
            rt_in = AnInput("should_ignore_rule", <<>>, <<>>, a, r, l, None)
       \/ \E a \in AN_ANNOTATIONS, ap \in RT_PARSERS :
            rt_in = AnInput("report", <<>>, <<>>, a, RULE_WS, 0, ap)

\* AnnotationParser::parse_annotations
Call_parse_annotations ==
    /\ rt_in.fn = "parse_annotations"
    /\ rt_out.fn = "none"
    /\ rt_out' = [fn |-> "parse_annotations",
                  annotations |-> parse_annotations(rt_in.prefixes, rt_in.text)]
    /\ UNCHANGED <<serverVars, hostVars, rt_in>>

\* AnnotationParser::should_ignore_rule
Call_should_ignore_rule ==
    /\ rt_in.fn = "should_ignore_rule"
    /\ rt_out.fn = "none"
    /\ rt_out' = [fn |-> "should_ignore_rule",
                  result |-> should_ignore_rule(rt_in.annotations, rt_in.rule_id, rt_in.line)]
    /\ UNCHANGED <<serverVars, hostVars, rt_in>>

\* the RuleContext run_ruleset_with_annotations builds for one rule
NewRuleContext ==
    [uri |-> URI_A, text |-> <<>>, options |-> EmptyObj, diagnostics |-> <<>>,
     annotations |-> rt_in.annotations, annotation_parser |-> rt_in.annotation_parser]

\* RuleContext::report: a rule reports one more diagnostic to its context;
\* reported lists the diagnostics passed to report so far
Call_report ==
    /\ rt_in.fn = "report"
    /\ LET ctx == IF rt_out.fn = "none" THEN NewRuleContext ELSE rt_out.ctx
           reported == IF rt_out.fn = "none" THEN <<>> ELSE rt_out.reported
       IN /\ Len(reported) < MaxReports
          /\ \E d \in AN_DIAGNOSTICS :
               rt_out' = [fn |-> "report", ctx |-> report(ctx, d),
                          reported |-> Append(reported, d)]
    /\ UNCHANGED <<serverVars, hostVars, rt_in>>

NextAnnotations ==
    \/ Call_parse_annotations
    \/ Call_should_ignore_rule
    \/ Call_report

SpecAnnotations == InitAnnotations /\ [][NextAnnotations]_vars

(***************************************************************************)
(* Properties of the annotation parser and the report funnel.              *)
(***************************************************************************)
\* the diagnostics of ds, from the i-th on, that the context does not ignore
RECURSIVE NotIgnoredFrom(_, _, _)
NotIgnoredFrom(ctx, ds, i) ==
    IF i > Len(ds) THEN <<>>
    ELSE IF RuleContext_should_ignore_rule(ctx, ds[i].rule_id, ds[i].line)
    THEN NotIgnoredFrom(ctx, ds, i + 1)
    ELSE <<ds[i]>> \o NotIgnoredFrom(ctx, ds, i + 1)

\* C11: the diagnostics of a context are exactly the diagnostics passed to
\* report, unchanged and in report order, without those whose rule id and
\* start line should_ignore_rule says to ignore for the context's
\* annotations; a context without a parser ignores nothing.
C11_ReportFunnel ==
    rt_out.fn = "report" =>
        /\ rt_out.ctx.diagnostics = NotIgnoredFrom(NewRuleContext, rt_out.reported, 1)
        /\ rt_in.annotation_parser = None => rt_out.ctx.diagnostics = rt_out.reported

\* two diagnostics were reported to a context with a parser: the first was
\* dropped, the second was kept
C11_Witness ==
    /\ rt_out.fn = "report"
    /\ rt_in.annotation_parser # None
    /\ Len(rt_out.reported) = 2
    /\ should_ignore_rule(rt_in.annotations, rt_out.reported[1].rule_id, rt_out.reported[1].line)
    /\ rt_out.ctx.diagnostics = <<rt_out.reported[2]>>

\* the rule list of an annotation covers this rule
CoversRule(a, rule_id) ==
    Len(a.rule_ids) = 0 \/ \E k \in 1..Len(a.rule_ids) : a.rule_ids[k] = rule_id

\* C12: should_ignore_rule is true exactly when some annotation covers the
\* rule (its rule list is empty or holds the rule id) and is either of File
\* scope, on whatever line, or of NextLine scope on the line just before the
\* line asked about.
C12_ShouldIgnoreRule ==
    rt_out.fn = "should_ignore_rule" =>
        (rt_out.result <=>
            \E i \in 1..Len(rt_in.annotations) :
                /\ CoversRule(rt_in.annotations[i], rt_in.rule_id)
                /\ \/ rt_in.annotations[i].scope = "File"
                   \/ /\ rt_in.annotations[i].scope = "NextLine"
                      /\ rt_in.line = rt_in.annotations[i].line + 1)

\* a next-line annotation alone decides: true for the line after it
C12_Witness ==
    /\ rt_out.fn = "should_ignore_rule"
    /\ rt_out.result
    /\ Len(rt_in.annotations) = 2
    /\ \A i \in 1..2 : rt_in.annotations[i].scope = "NextLine"
    /\ rt_in.line = 2

\* the line, trimmed, starts with the prefix p and what follows p, trimmed,
\* starts with forseti-ignore
QualifiesWith(p, line) ==
    /\ starts_with(trim(line), p)
    /\ starts_with(trim(SubSeq(trim(line), Len(p) + 1, Len(trim(line)))), FORSETI_IGNORE)

Qualifies(prefixes, line) == \E k \in 1..Len(prefixes) : QualifiesWith(prefixes[k], line)

\* C13: parse_annotations yields an annotation with the 0-based number of a
\* line exactly when the line qualifies with one of the prefixes of the
\* parser, whatever the prefix list.
C13_AnnotationLineQualifies ==
    rt_out.fn = "parse_annotations" =>
        \A i \in 1..Len(lines(rt_in.text)) :
            Qualifies(rt_in.prefixes, lines(rt_in.text)[i]) <=>
                \E k \in 1..Len(rt_out.annotations) : rt_out.annotations[k].line = i - 1

\* what follows forseti-ignore on a line that qualifies with p, trimmed
RemainderWith(p, line) ==
    LET content == trim(SubSeq(trim(line), Len(p) + 1, Len(trim(line))))
    IN trim(SubSeq(content, Len(FORSETI_IGNORE) + 1, Len(content)))

\* the piece of s that starts after position b and ends before the next comma
PieceAfter(s, b) ==
    LET ends == {e \in (b + 1)..(Len(s) + 1) : e = Len(s) + 1 \/ s[e] = ","}
        e == CHOOSE x \in ends : \A y \in ends : x <= y
    IN trim(SubSeq(s, b + 1, e - 1))

\* ids is the list of the non-empty trimmed pieces of s between commas
IsRuleList(ids, s) ==
    LET B == {b \in 0..Len(s) : (b = 0 \/ s[b] = ",") /\ PieceAfter(s, b) # <<>>}
    IN /\ Len(ids) = Cardinality(B)
       /\ \A b \in B : ids[Cardinality({c \in B : c < b}) + 1] = PieceAfter(s, b)

\* the annotation a is what the remainder rem stands for
MatchesRemainder(a, rem) ==
    IF starts_with(rem, DASH_FILE)
    THEN /\ a.scope = "File"
         /\ IsRuleList(a.rule_ids, SubSeq(rem, Len(DASH_FILE) + 1, Len(rem)))
    ELSE IF starts_with(rem, DASH_NEXT_LINE)
    THEN /\ a.scope = "NextLine"
         /\ IsRuleList(a.rule_ids, SubSeq(rem, Len(DASH_NEXT_LINE) + 1, Len(rem)))
    ELSE IF rem = <<>>
    THEN a.scope = "NextLine" /\ a.rule_ids = <<>>
    ELSE a.scope = "NextLine" /\ IsRuleList(a.rule_ids, rem)

\* C14: every annotation parse_annotations yields has the scope and the rule
\* list that the remainder of its line after forseti-ignore stands for: -file
\* gives File, -next-line gives NextLine, both with the rest as the rule
\* list; an empty remainder gives NextLine for all rules; any other
\* remainder gives NextLine with the remainder as the rule list. The rule
\* list is the trimmed non-empty pieces between commas.
C14_ScopeAndRules ==
    rt_out.fn = "parse_annotations" =>
        \A k \in 1..Len(rt_out.annotations) :
            LET a == rt_out.annotations[k]
                line == lines(rt_in.text)[a.line + 1]
            IN \E p \in 1..Len(rt_in.prefixes) :
                  /\ QualifiesWith(rt_in.prefixes[p], line)
                  /\ MatchesRemainder(a, RemainderWith(rt_in.prefixes[p], line))

\* a File annotation for two rules, then a next-line annotation whose rule
\* list had empty pieces
C14_Witness ==
    /\ rt_out.fn = "parse_annotations"
    /\ Len(rt_out.annotations) = 2
    /\ rt_out.annotations[1] = [scope |-> "File", rule_ids |-> <<RULE_WS, RULE_NX>>, line |-> 0]
    /\ rt_out.annotations[2] = [scope |-> "NextLine", rule_ids |-> <<RULE_WS, RULE_NX>>, line |-> 1]

(***************************************************************************)
(* Annotation masking by the servers.                                      *)
(***************************************************************************)
\* the kind of the rule with this id
RuleKind(rule_id) ==
    (CHOOSE r \in {RS_ALL.rules[i] : i \in 1..Len(RS_ALL.rules)} : r.id = rule_id).kind

\* the content of the analyzeFile request read as the j-th line
ContentOf(j) == unwrap_or(reqs[j].line.payload[1].content, <<>>)

\* C15: on both servers, the diagnostics event of an analyzeFile request
\* read by an initialized server holds, when the capabilities name
\* annotation prefixes, no diagnostic that an annotation of the analyzed
\* content ignores, and, when they name none, every finding of every rule
\* that ran.
C15_AnalyzeMasks ==
    \A j \in 1..Len(reqs) :
        (IsRequest(j, "analyzeFile") /\ reqs[j].init_before) =>
            \A k \in 1..Len(Written(j)) :
                IsDiagnosticsEvent(Written(j)[k]) =>
                    LET ds == Written(j)[k].payload[1].diagnostics
                    IN IF opts.annotation_prefixes # <<>>
                       THEN \A d \in 1..Len(ds) :
                                ~should_ignore_rule(
                                    parse_annotations(opts.annotation_prefixes, ContentOf(j)),
                                    ds[d].rule_id, ds[d].line)
                       ELSE \A c \in 1..Len(reqs[j].calls) :
                                \A n \in 1..Len(lines(ContentOf(j))) :
                                    Flagged(RuleKind(reqs[j].calls[c].rule_id),
                                            lines(ContentOf(j))[n]) =>
                                        \E d \in 1..Len(ds) :
                                            ds[d] = [rule_id |-> reqs[j].calls[c].rule_id,
                                                     line |-> n - 1]

(***************************************************************************)
(* LineIndex (core.rs). A text is its sequence of bytes; Vec indices are   *)
(* 0-based, so starts[i] of the code is self.starts[i + 1] here.           *)
(***************************************************************************)
\* Length of the texts a LineIndex is built over.
MaxTextLen == 4

\* the loop of LineIndex::new from byte i - 1 on: i is pushed for a newline
\* at byte i - 1
RECURSIVE StartsFrom(_, _)
StartsFrom(text, i) ==
    IF i > Len(text) THEN <<>>
    ELSE IF text[i] = "\n" THEN <<i>> \o StartsFrom(text, i + 1)
    ELSE StartsFrom(text, i + 1)

\* LineIndex::new
LineIndex_new(text) == [text |-> text, starts |-> <<0>> \o StartsFrom(text, 1)]

\* usize::saturating_sub
saturating_sub(a, b) == IF a >= b THEN a - b ELSE 0

\* Variant of to_pos_clamp: an offset past the end is used as it is.
to_pos_no_clamp(self, off) == off

\* to_pos: an offset past the end of the text becomes the length of the text
to_pos_clamp(self, off) == IF off > Len(self.text) THEN Len(self.text) ELSE off

\* Variant of to_pos_next: the last line ends at the length of the text.
to_pos_next_at_len(self, mid) ==
    IF mid + 1 < Len(self.starts) THEN self.starts[mid + 2] ELSE Len(self.text)

\* to_pos: the start of the line after line mid, or one past the end of the
\* text for the last line
to_pos_next(self, mid) ==
    IF mid + 1 < Len(self.starts) THEN self.starts[mid + 2] ELSE Len(self.text) + 1

\* to_pos on entry: the offset clamped, lo and hi of the binary search
to_pos_enter(self, off) ==
    [fn |-> "to_pos", pc |-> "loop", off |-> to_pos_clamp(self, off),
     lo |-> 0, hi |-> saturating_sub(Len(self.starts), 1),
     pos |-> [line |-> 0, character |-> 0], fallback |-> FALSE]

\* the position returned after the loop, or by its break
to_pos_fallback(st) ==
    [st EXCEPT !.pc = "done", !.pos = [line |-> 0, character |-> st.off],
               !.fallback = TRUE]

\* to_pos, one test of the loop condition and one iteration of the body; pc
\* becomes "panic" for an index out of bounds or a subtraction below zero
to_pos_iter(self, st) ==
    IF ~(st.lo <= st.hi) THEN to_pos_fallback(st)
    ELSE LET mid == (st.lo + st.hi) \div 2
         IN IF ~(mid < Len(self.starts)) THEN [st EXCEPT !.pc = "panic"]
            ELSE LET start == self.starts[mid + 1]
                     next == to_pos_next(self, mid)
                 IN IF st.off < start
                    THEN IF mid = 0 THEN to_pos_fallback(st)
                         ELSE [st EXCEPT !.hi = mid - 1]
                    ELSE IF st.off >= next
                    THEN [st EXCEPT !.lo = mid + 1]
                    ELSE [st EXCEPT !.pc = "done",
                                    !.pos = [line |-> mid, character |-> st.off - start]]

\* to_pos run to its end from the state st
RECURSIVE to_pos_run(_, _)
to_pos_run(self, st) ==
    IF st.pc # "loop" THEN st ELSE to_pos_run(self, to_pos_iter(self, st))

\* LineIndex::to_pos
to_pos(self, off) == to_pos_run(self, to_pos_enter(self, off)).pos

\* the texts and offsets of the model
RECURSIVE TextsOfLen(_)
TextsOfLen(n) ==
    IF n = 0 THEN {<<>>}
    ELSE {Append(t, c) : t \in TextsOfLen(n - 1), c \in {"a", "\n"}}
LI_TEXTS == UNION {TextsOfLen(n) : n \in 0..MaxTextLen}
LI_OFFSETS == 0..(MaxTextLen + 2)

InitLineIndex ==
    /\ ServerIdle
    /\ rt_in \in [fn : {"to_pos"}, self : {LineIndex_new(t) : t \in LI_TEXTS},
                  off : LI_OFFSETS]
    /\ rt_out = [fn |-> "none"]

\* LineIndex::to_pos is entered
Call_to_pos ==
    /\ rt_in.fn = "to_pos"
    /\ rt_out.fn = "none"
    /\ rt_out' = to_pos_enter(rt_in.self, rt_in.off)
    /\ UNCHANGED <<serverVars, hostVars, rt_in>>

\* LineIndex::to_pos goes once through its loop
to_pos_loop ==
    /\ rt_in.fn = "to_pos"
    /\ rt_out.fn = "to_pos"
    /\ rt_out.pc = "loop"
    /\ rt_out' = to_pos_iter(rt_in.self, rt_out)
    /\ UNCHANGED <<serverVars, hostVars, rt_in>>

NextLineIndex ==
    \/ Call_to_pos
    \/ to_pos_loop

\* a call that was made runs on: to_pos is sequential code
SpecLineIndex == InitLineIndex /\ [][NextLineIndex]_vars /\ WF_vars(NextLineIndex)

(***************************************************************************)
(* Properties of LineIndex.                                                *)
(***************************************************************************)
\* the line starts of a text: 0, and i + 1 for every newline at byte i
LineStarts(text) == {0} \cup {k \in 1..Len(text) : text[k] = "\n"}

\* the greatest line start that is at most o
LineStartOf(text, o) ==
    CHOOSE s \in LineStarts(text) :
        s <= o /\ \A u \in LineStarts(text) : u <= o => u <= s

ToPosDone == rt_out.fn = "to_pos" /\ rt_out.pc = "done"

\* C16: for an offset o within the text, to_pos returns as line the number
\* of line starts at or before o, less one (the greatest i with starts[i] <=
\* o), and as character o less that line start; the fallback {0, o} is
\* returned only when it is that answer.
C16_ToPosCorrect ==
    (ToPosDone /\ rt_in.off <= Len(rt_in.self.text)) =>
        /\ rt_out.pos.line =
               Cardinality({s \in LineStarts(rt_in.self.text) : s <= rt_in.off}) - 1
        /\ rt_out.pos.character = rt_in.off - LineStartOf(rt_in.self.text, rt_in.off)

\* an offset on the third line of a text
C16_Witness ==
    /\ ToPosDone
    /\ rt_in.off <= Len(rt_in.self.text)
    /\ rt_out.pos = [line |-> 2, character |-> 1]

\* C17: to_pos never indexes out of bounds nor subtracts below zero, every
\* call returns, and for an offset past the end of the text it returns what
\* it returns for the length of the text.
C17_ToPosTotal ==
    /\ [](rt_out.fn = "to_pos" => rt_out.pc # "panic")
    /\ <>ToPosDone
    /\ []((ToPosDone /\ rt_in.off > Len(rt_in.self.text)) =>
              rt_out.pos = to_pos(rt_in.self, Len(rt_in.self.text)))

\* an offset past the end of a text of several lines
C17_Witness ==
    /\ ToPosDone
    /\ rt_in.off > Len(rt_in.self.text) + 1
    /\ rt_out.pos.line > 1

(***************************************************************************)
(* Envelope on the wire (core.rs): what the derived Serialize and          *)
(* Deserialize of Envelope do. A JSON object is a function from its keys.  *)
(***************************************************************************)
\* the names of the variants of Kind on the wire (rename_all = "lowercase")
KINDS == {"req", "res", "event"}

\* #[derive(Serialize)] of Envelope: id and payload are written only when
\* they are Some (skip_serializing_if = "Option::is_none"), typ as "type"
Envelope_serialize(e) ==
    LET keys == {"v", "kind", "type"}
                \cup (IF e.id # None THEN {"id"} ELSE {})
                \cup (IF e.payload # None THEN {"payload"} ELSE {})
    IN [k \in keys |->
           CASE k = "v" -> JNum(e.v)
             [] k = "kind" -> JStr(e.kind)
             [] k = "type" -> JStr(e.typ)
             [] k = "id" -> JStr(e.id[1])
             [] k = "payload" -> e.payload[1]]

\* Deserialize of an Option field: a missing key and null give None
deserialize_option(obj, k) ==
    IF k \notin DOMAIN obj THEN None
    ELSE IF obj[k].tag = "null" THEN None
    ELSE Some(obj[k])

\* #[derive(Deserialize)] of Envelope<Value>: None stands for Err
Envelope_deserialize(obj) ==
    LET id == deserialize_option(obj, "id")
    IN IF \/ ~({"v", "kind", "type"} \subseteq DOMAIN obj)
          \/ obj["v"].tag # "num"
          \/ obj["kind"].tag # "str"
          \/ obj["type"].tag # "str"
          \/ (id # None /\ id[1].tag # "str")
       THEN None
       ELSE IF obj["v"].val \notin 0..255 \/ obj["kind"].val \notin KINDS
       THEN None
       ELSE Some([v |-> obj["v"].val, kind |-> obj["kind"].val, typ |-> obj["type"].val,
                  id |-> IF id = None THEN None ELSE Some(id[1].val),
                  payload |-> deserialize_option(obj, "payload")])

\* the envelopes of the model
ENV_PAYLOADS == <<None, Some(JNull), Some(EmptyObj), Some(JStr("x")), Some(JBool(FALSE))>>
ENV_IDS == {None, Some(""), Some("1")}
ENVELOPES ==
    {[v |-> v, kind |-> kind, typ |-> typ, id |-> id, payload |-> ENV_PAYLOADS[p]] :
        v \in {0, PROTOCOL_VERSION, 255}, kind \in KINDS, typ \in {"", "initialize"},
        id \in ENV_IDS, p \in DOMAIN ENV_PAYLOADS}

InitEnvelope ==
    /\ ServerIdle
    /\ \E e \in ENVELOPES : rt_in = [fn |-> "envelope", envelope |-> e]
    /\ rt_out = [fn |-> "none"]

\* serde_json::to_string(&envelope)
Call_serialize ==
    /\ rt_in.fn = "envelope"
    /\ rt_out.fn = "none"
    /\ rt_out' = [fn |-> "serialized", json |-> Envelope_serialize(rt_in.envelope)]
    /\ UNCHANGED <<serverVars, hostVars, rt_in>>

\* serde_json::from_str::<Envelope>(&line)
Call_deserialize ==
    /\ rt_in.fn = "envelope"
    /\ rt_out.fn = "serialized"
    /\ rt_out' = [fn |-> "deserialized", json |-> rt_out.json,
                  result |-> Envelope_deserialize(rt_out.json)]
    /\ UNCHANGED <<serverVars, hostVars, rt_in>>

NextEnvelope ==
    \/ Call_serialize
    \/ Call_deserialize

SpecEnvelope == InitEnvelope /\ [][NextEnvelope]_vars

\* C18: deserializing the serialization of an envelope gives that envelope,
\* whatever its v, kind and type, with or without id, with or without
\* payload, a present payload of null included.
C18_EnvelopeRoundTrip ==
    rt_out.fn = "deserialized" => rt_out.result = Some(rt_in.envelope)

(***************************************************************************)
(* merge_engine_config called directly.                                    *)
(***************************************************************************)
\* the values of EngineConfig.enabled and EngineConfig.rulesets
CFG_ENABLED == <<None, Some(TRUE), Some(FALSE)>>
CFG_RULESETS ==
    <<None,
      Some(<<>>),
      Some([k \in {"basic"} |-> SETTINGS_WARN]),
      Some([k \in {"basic", "extra"} |-> IF k = "basic" THEN SETTINGS_ALL ELSE JStr("all")])>>

InitConfig ==
    /\ ServerIdle
    /\ \E de, ue \in DOMAIN CFG_ENABLED, dr, ur \in DOMAIN CFG_RULESETS :
         rt_in = [fn |-> "merge_engine_config",
                  defaults |-> [enabled |-> CFG_ENABLED[de], rulesets |-> CFG_RULESETS[dr]],
                  user |-> [enabled |-> CFG_ENABLED[ue], rulesets |-> CFG_RULESETS[ur]]]
    /\ rt_out = [fn |-> "none"]

\* merge_engine_config(&defaults, &user)
Call_merge_engine_config ==
    /\ rt_in.fn = "merge_engine_config"
    /\ rt_out.fn = "none"
    /\ rt_out' = [fn |-> "merge_engine_config",
                  result |-> merge_engine_config(rt_in.defaults, rt_in.user)]
    /\ UNCHANGED <<serverVars, hostVars, rt_in>>

NextConfig == Call_merge_engine_config

SpecConfig == InitConfig /\ [][NextConfig]_vars

\* the ruleset map of a configuration, empty when it has none
RulesetsOf(c) == IF c.rulesets = None THEN <<>> ELSE c.rulesets[1]

Merged == rt_out.fn = "merge_engine_config"

\* C19: the merged enabled is the user's if set, else the default's if set,
\* else true; the merged rulesets hold the user's value for every id of the
\* user (whole, not merged with the default's value), the default's value
\* for every id only the defaults have, and no other id.
C19_MergeRule ==
    Merged =>
        LET U == RulesetsOf(rt_in.user)
            D == RulesetsOf(rt_in.defaults)
        IN /\ rt_out.result.enabled =
                  IF rt_in.user.enabled # None THEN rt_in.user.enabled
                  ELSE IF rt_in.defaults.enabled # None THEN rt_in.defaults.enabled
                  ELSE Some(TRUE)
           /\ rt_out.result.rulesets # None
           /\ DOMAIN RulesetsOf(rt_out.result) = (DOMAIN U) \cup (DOMAIN D)
           /\ \A k \in DOMAIN U : RulesetsOf(rt_out.result)[k] = U[k]
           /\ \A k \in (DOMAIN D) \ (DOMAIN U) : RulesetsOf(rt_out.result)[k] = D[k]

\* user and defaults name the same ruleset with different settings, and the
\* defaults name one more
C19_Witness ==
    /\ Merged
    /\ DOMAIN RulesetsOf(rt_in.user) = {"basic"}
    /\ DOMAIN RulesetsOf(rt_in.defaults) = {"basic", "extra"}
    /\ RulesetsOf(rt_in.user)["basic"] # RulesetsOf(rt_in.defaults)["basic"]
    /\ RulesetsOf(rt_out.result)["basic"] = SETTINGS_WARN
    /\ rt_in.user.enabled = None /\ rt_in.defaults.enabled = Some(FALSE)

\* C20 as the spec states it: merging the empty user configuration gives the
\* rulesets of the defaults and enabled = true.
C20_MergeIdentity ==
    (Merged /\ rt_in.user = EngineConfigDefault) =>
        /\ RulesetsOf(rt_out.result) = RulesetsOf(rt_in.defaults)
        /\ rt_out.result.enabled = Some(TRUE)

\* C20, amended: merging the empty user configuration gives the rulesets of
\* the defaults (the empty map when the defaults have none) and the enabled
\* of the defaults, true only when the defaults do not set it.
C20_MergeIdentityAmended ==
    (Merged /\ rt_in.user = EngineConfigDefault) =>
        /\ rt_out.result.rulesets = Some(RulesetsOf(rt_in.defaults))
        /\ rt_out.result.enabled =
               IF rt_in.defaults.enabled # None THEN rt_in.defaults.enabled ELSE Some(TRUE)

\* the empty user configuration merged into defaults that disable the engine
C20_Witness ==
    /\ Merged
    /\ rt_in.user = EngineConfigDefault
    /\ rt_in.defaults.enabled = Some(FALSE)
    /\ DOMAIN RulesetsOf(rt_in.defaults) = {"basic", "extra"}
    /\ rt_out.result.enabled = Some(FALSE)

(***************************************************************************)
(* Environment overrides (config.rs): Config::merge_env_overrides called   *)
(* with a getter over a fixed environment.                                 *)
(***************************************************************************)
ASCII_UPPER == <<"A", "B", "C", "D", "E", "F", "G", "H", "I", "J", "K", "L", "M",
                 "N", "O", "P", "Q", "R", "S", "T", "U", "V", "W", "X", "Y", "Z">>
ASCII_LOWER == <<"a", "b", "c", "d", "e", "f", "g", "h", "i", "j", "k", "l", "m",
                 "n", "o", "p", "q", "r", "s", "t", "u", "v", "w", "x", "y", "z">>
ASCII_DIGIT == <<"0", "1", "2", "3", "4", "5", "6", "7", "8", "9">>

IndexIn(seq, c) == CHOOSE i \in 1..Len(seq) : seq[i] = c

\* str::to_ascii_lowercase
to_ascii_lowercase(s) ==
    [i \in 1..Len(s) |->
        IF Contains(ASCII_UPPER, s[i]) THEN ASCII_LOWER[IndexIn(ASCII_UPPER, s[i])]
        ELSE s[i]]

\* str::to_ascii_uppercase
to_ascii_uppercase(s) ==
    [i \in 1..Len(s) |->
        IF Contains(ASCII_LOWER, s[i]) THEN ASCII_UPPER[IndexIn(ASCII_LOWER, s[i])]
        ELSE s[i]]

is_ascii_alphanumeric(c) ==
    Contains(ASCII_UPPER, c) \/ Contains(ASCII_LOWER, c) \/ Contains(ASCII_DIGIT, c)

\* upper: every character that is not ASCII alphanumeric becomes "_", then
\* the whole is uppercased
upper(id) ==
    to_ascii_uppercase([i \in 1..Len(id) |->
                           IF is_ascii_alphanumeric(id[i]) THEN id[i] ELSE "_"])

\* A Result<T, ()> is held as an Option: Err(()) is None, Ok(x) is Some(x).
\* parse_bool
parse_bool(s) ==
    LET t == to_ascii_lowercase(trim(s))
    IN IF t \in {<<"1">>, <<"t", "r", "u", "e">>, <<"y", "e", "s">>, <<"o", "n">>}
       THEN Some(TRUE)
       ELSE IF t \in {<<"0">>, <<"f", "a", "l", "s", "e">>, <<"n", "o">>, <<"o", "f", "f">>}
       THEN Some(FALSE)
       ELSE None

\* Variant of parse_log_level: a level it does not know is read as the
\* default level.
parse_log_level_or_default(s) ==
    LET t == to_ascii_lowercase(trim(s))
    IN IF t = <<"t", "r", "a", "c", "e">> THEN Some("Trace")
       ELSE IF t = <<"d", "e", "b", "u", "g">> THEN Some("Debug")
       ELSE IF t = <<"w", "a", "r", "n">> THEN Some("Warn")
       ELSE IF t = <<"e", "r", "r", "o", "r">> THEN Some("Error")
       ELSE Some("Info")

\* parse_log_level
parse_log_level(s) ==
    LET t == to_ascii_lowercase(trim(s))
    IN IF t = <<"t", "r", "a", "c", "e">> THEN Some("Trace")
       ELSE IF t = <<"d", "e", "b", "u", "g">> THEN Some("Debug")
       ELSE IF t = <<"i", "n", "f", "o">> THEN Some("Info")
       ELSE IF t = <<"w", "a", "r", "n">> THEN Some("Warn")
       ELSE IF t = <<"e", "r", "r", "o", "r">> THEN Some("Error")
       ELSE None

\* parse_output_format
parse_output_format(s) ==
    LET t == to_ascii_lowercase(trim(s))
    IN IF t = <<"j", "s", "o", "n">> THEN Some("Json")
       ELSE IF t = <<"n", "d", "j", "s", "o", "n">> THEN Some("Ndjson")
       ELSE IF t = <<"t", "e", "x", "t">> THEN Some("Text")
       ELSE IF t = <<"s", "a", "r", "i", "f">> THEN Some("Sarif")
       ELSE None

\* the number a sequence of decimal digits writes
RECURSIVE DigitsValue(_)
DigitsValue(ds) ==
    IF ds = <<>> THEN 0
    ELSE 10 * DigitsValue(SubSeq(ds, 1, Len(ds) - 1)) + (IndexIn(ASCII_DIGIT, ds[Len(ds)]) - 1)

\* str::parse::<u16>: an optional "+", then at least one digit and only
\* digits, and a value that fits 16 bits; the text is not trimmed
parse_u16(v) ==
    LET digits == IF v # <<>> /\ Head(v) = "+" THEN Tail(v) ELSE v
    IN IF digits = <<>> \/ \E i \in 1..Len(digits) : ~Contains(ASCII_DIGIT, digits[i])
       THEN None
       ELSE IF DigitsValue(digits) >= 2^16 THEN None
       ELSE Some(DigitsValue(digits))

\* parse_csv_ids: the pieces between commas, trimmed, the empty ones dropped
parse_csv_ids(s) ==
    LET pieces == split(s, ",")
    IN SelectNonEmpty([i \in 1..Len(pieces) |-> trim(pieces[i])])

\* toml::Value, a record [tag, val] like a JSON value
TString(s) == [tag |-> "String", val |-> s]
TBoolean(b) == [tag |-> "Boolean", val |-> b]
TInteger(i) == [tag |-> "Integer", val |-> i]
TArray(a) == [tag |-> "Array", val |-> a]
TTable(t) == [tag |-> "Table", val |-> t]

\* the values of a sequence of Options that are Some, in order
RECURSIVE SomeValues(_)
SomeValues(os) ==
    IF os = <<>> THEN <<>>
    ELSE IF Head(os) = None THEN SomeValues(Tail(os))
    ELSE <<Head(os)[1]>> \o SomeValues(Tail(os))

\* json_to_toml_value. The numbers of the model are i64 values, for which
\* the conversion is Some(Integer).
RECURSIVE json_to_toml_value(_)
json_to_toml_value(v) ==
    IF v.tag = "null" THEN Some(TString(<<>>))
    ELSE IF v.tag = "bool" THEN Some(TBoolean(v.val))
    ELSE IF v.tag = "num" THEN Some(TInteger(v.val))
    ELSE IF v.tag = "str" THEN Some(TString(v.val))
    ELSE IF v.tag = "arr"
    THEN Some(TArray(SomeValues([i \in 1..Len(v.val) |-> json_to_toml_value(v.val[i])])))
    ELSE LET conv == [kk \in DOMAIN v.val |-> json_to_toml_value(v.val[kk])]
         IN Some(TTable([kk \in {k \in DOMAIN conv : conv[k] # None} |-> conv[kk][1]]))

\* Variant of merge_json_object_into_toml_table: the table is replaced by
\* the converted object.
merge_json_object_replaces_table(json_obj, toml_tbl) ==
    LET conv == [k \in DOMAIN json_obj |-> json_to_toml_value(json_obj[k])]
    IN [k \in {x \in DOMAIN conv : conv[x] # None} |-> conv[k][1]]

\* merge_json_object_into_toml_table: toml_tbl.insert(k, tv) for every pair
\* of the object whose value converts
merge_json_object_into_toml_table(json_obj, toml_tbl) ==
    LET conv == [k \in DOMAIN json_obj |-> json_to_toml_value(json_obj[k])]
        ins == {k \in DOMAIN conv : conv[k] # None}
    IN [k \in (DOMAIN toml_tbl) \cup ins |->
           IF k \in ins THEN conv[k][1] ELSE toml_tbl[k]]

\* LinterCfg::default()
LinterCfg_default ==
    [log_level |-> "Info", output_format |-> "Json", parallelism |-> 0,
     fail_on_error |-> TRUE]

\* RulesetCfg::default(), derived: the Default of every field
RulesetCfg_default ==
    [enabled |-> FALSE, config |-> <<>>, git |-> None, path |-> None]

\* Config::from_default()
Config_from_default == [linter |-> LinterCfg_default, ruleset |-> <<>>]

\* The environment is a function from the names that are set to their text.
\* A name is a tuple of the pieces format! joins.
get(env, k) == IF k \in DOMAIN env THEN Some(env[k]) ELSE None

\* serde_json::from_str on the text of a CONFIG_JSON variable, for the texts
\* of the model: Ok(value) as Some(value), Err as None
JSON_TEXT_OBJECT == "{\"max\":100,\"tags\":[1,null],\"nil\":null}"
JSON_TEXT_OBJECT_2 == "{\"on\":true}"
JSON_TEXT_ARRAY == "[1]"
JSON_TEXT_BROKEN == "{max:100"

K_MAX == <<"m", "a", "x">>
K_TAGS == <<"t", "a", "g", "s">>
K_NIL == <<"n", "i", "l">>
K_ON == <<"o", "n">>
K_KEEP == <<"k", "e", "e", "p">>

serde_json_from_str(v) ==
    IF v = JSON_TEXT_OBJECT
    THEN Some(JObj([k \in {K_MAX, K_TAGS, K_NIL} |->
                      IF k = K_MAX THEN JNum(100)
                      ELSE IF k = K_TAGS THEN JArr(<<JNum(1), JNull>>)
                      ELSE JNull]))
    ELSE IF v = JSON_TEXT_OBJECT_2 THEN Some(JObj([k \in {K_ON} |-> JBool(TRUE)]))
    ELSE IF v = JSON_TEXT_ARRAY THEN Some(JArr(<<JNum(1)>>))
    ELSE None

\* Value::as_object
as_object(v) == IF v.tag = "obj" THEN Some(v.val) ELSE None

\* the loop body of merge_env_overrides for one ruleset id
override_ruleset(env, id, rs) ==
    LET e == get(env, <<"FORSETI_RULESET_", upper(id), "_ENABLED">>)
        b == IF e # None THEN parse_bool(e[1]) ELSE None
        rs1 == IF b # None THEN [rs EXCEPT !.enabled = b[1]] ELSE rs
        c == get(env, <<"FORSETI_RULESET_", upper(id), "_CONFIG_JSON">>)
        json == IF c # None THEN serde_json_from_str(c[1]) ELSE None
        obj == IF json # None THEN as_object(json[1]) ELSE None
    IN IF obj # None
       THEN [rs1 EXCEPT !.config = merge_json_object_into_toml_table(obj[1], rs1.config)]
       ELSE rs1

\* Config::merge_env_overrides
merge_env_overrides(self, env) ==
    LET ll == get(env, <<"FORSETI_LINTER_LOG_LEVEL">>)
        of == get(env, <<"FORSETI_LINTER_OUTPUT_FORMAT">>)
        pa == get(env, <<"FORSETI_LINTER_PARALLELISM">>)
        fe == get(env, <<"FORSETI_LINTER_FAIL_ON_ERROR">>)
        l1 == IF ll # None /\ parse_log_level(ll[1]) # None
              THEN [self.linter EXCEPT !.log_level = parse_log_level(ll[1])[1]]
              ELSE self.linter
        l2 == IF of # None /\ parse_output_format(of[1]) # None
              THEN [l1 EXCEPT !.output_format = parse_output_format(of[1])[1]]
              ELSE l1
        l3 == IF pa # None /\ parse_u16(pa[1]) # None
              THEN [l2 EXCEPT !.parallelism = parse_u16(pa[1])[1]]
              ELSE l2
        l4 == IF fe # None /\ parse_bool(fe[1]) # None
              THEN [l3 EXCEPT !.fail_on_error = parse_bool(fe[1])[1]]
              ELSE l3
        ids == get(env, <<"FORSETI_RULESET_IDS">>)
        listed == IF ids # None
                  THEN {parse_csv_ids(ids[1])[i] : i \in 1..Len(parse_csv_ids(ids[1]))}
                  ELSE {}
        \* entry(id).or_default()
        r1 == [id \in (DOMAIN self.ruleset) \cup listed |->
                  IF id \in DOMAIN self.ruleset THEN self.ruleset[id]
                  ELSE RulesetCfg_default]
    IN [linter |-> l4,
        ruleset |-> [id \in DOMAIN r1 |-> override_ruleset(env, id, r1[id])]]

\* the ruleset ids of the model
ID_A_DASH_B == <<"a", "-", "b">>
ID_A_UNDER_B == <<"a", "_", "b">>
ID_C == <<"c">>

\* the configurations the overrides are merged into
OS_CONFIGS ==
    <<Config_from_default,
      [linter |-> [log_level |-> "Error", output_format |-> "Text", parallelism |-> 2,
                   fail_on_error |-> FALSE],
       ruleset |-> [id \in {ID_A_DASH_B, ID_A_UNDER_B} |->
                      IF id = ID_A_DASH_B
                      THEN [enabled |-> TRUE,
                            config |-> [k \in {K_MAX, K_KEEP} |->
                                          IF k = K_MAX THEN TInteger(80)
                                          ELSE TString(<<"k">>)],
                            git |-> None, path |-> Some(<<"p">>)]
                      ELSE [enabled |-> TRUE, config |-> <<>>,
                            git |-> Some(<<"g">>), path |-> None]]]>>

\* the texts of the variables, None for a variable that is not set
OS_LOG_LEVEL == <<None, Some(<<" ", "W", "a", "r", "n">>), Some(<<"l", "o", "u", "d">>)>>
OS_OUTPUT_FORMAT == <<None, Some(<<"s", "a", "r", "i", "f">>), Some(<<"x", "m", "l">>)>>
OS_PARALLELISM == <<None, Some(<<"1", "2">>), Some(<<"6", "5", "5", "3", "6">>),
                     Some(<<" ", "4">>)>>
OS_FAIL_ON_ERROR == <<None, Some(<<"O", "N">>), Some(<<"m", "a", "y", "b", "e">>)>>
OS_IDS == <<None, Some(<<"a", "-", "b", ",", " ", "c", ",", ",">>), Some(<<"c">>)>>
OS_AB_ENABLED == <<None, Some(<<"o", "f", "f">>), Some(<<"2">>)>>
OS_AB_CONFIG_JSON == <<None, Some(JSON_TEXT_OBJECT), Some(JSON_TEXT_ARRAY),
                        Some(JSON_TEXT_BROKEN)>>
OS_C_ENABLED == <<None, Some(<<"1">>)>>
OS_C_CONFIG_JSON == <<None, Some(JSON_TEXT_OBJECT_2)>>

OS_NAMES ==
    <<<<"FORSETI_LINTER_LOG_LEVEL">>, <<"FORSETI_LINTER_OUTPUT_FORMAT">>,
      <<"FORSETI_LINTER_PARALLELISM">>, <<"FORSETI_LINTER_FAIL_ON_ERROR">>,
      <<"FORSETI_RULESET_IDS">>,
      <<"FORSETI_RULESET_", <<"A", "_", "B">>, "_ENABLED">>,
      <<"FORSETI_RULESET_", <<"A", "_", "B">>, "_CONFIG_JSON">>,
      <<"FORSETI_RULESET_", <<"C">>, "_ENABLED">>,
      <<"FORSETI_RULESET_", <<"C">>, "_CONFIG_JSON">>>>

\* the environment in which the i-th name has the i-th text of values
EnvOf(values) ==
    [k \in {OS_NAMES[i] : i \in {j \in 1..Len(OS_NAMES) : values[j] # None}} |->
        values[IndexIn(OS_NAMES, k)][1]]

InitEnv ==
    /\ ServerIdle
    /\ \E c \in DOMAIN OS_CONFIGS,
          ll \in DOMAIN OS_LOG_LEVEL, of \in DOMAIN OS_OUTPUT_FORMAT,
          pa \in DOMAIN OS_PARALLELISM, fe \in DOMAIN OS_FAIL_ON_ERROR,
          ids \in DOMAIN OS_IDS,
          ae \in DOMAIN OS_AB_ENABLED, aj \in DOMAIN OS_AB_CONFIG_JSON,
          ce \in DOMAIN OS_C_ENABLED, cj \in DOMAIN OS_C_CONFIG_JSON :
         rt_in = [fn |-> "merge_env_overrides",
                  self |-> OS_CONFIGS[c],
                  env |-> EnvOf(<<OS_LOG_LEVEL[ll], OS_OUTPUT_FORMAT[of],
                                  OS_PARALLELISM[pa], OS_FAIL_ON_ERROR[fe],
                                  OS_IDS[ids], OS_AB_ENABLED[ae],
                                  OS_AB_CONFIG_JSON[aj], OS_C_ENABLED[ce],
                                  OS_C_CONFIG_JSON[cj]>>)]
    /\ rt_out = [fn |-> "none"]

\* cfg.merge_env_overrides(get): returns (), cfg is changed in place
Call_merge_env_overrides ==
    /\ rt_in.fn = "merge_env_overrides"
    /\ rt_out.fn = "none"
    /\ rt_out' = [fn |-> "merge_env_overrides",
                  self |-> merge_env_overrides(rt_in.self, rt_in.env)]
    /\ UNCHANGED <<serverVars, hostVars, rt_in>>

NextEnv == Call_merge_env_overrides

SpecEnv == InitEnv /\ [][NextEnv]_vars

EnvMerged == rt_out.fn = "merge_env_overrides"

\* the text of a variable of the environment of the call
EnvText(name) == get(rt_in.env, name)
AbEnabledText == EnvText(<<"FORSETI_RULESET_", <<"A", "_", "B">>, "_ENABLED">>)
AbConfigJsonText == EnvText(<<"FORSETI_RULESET_", <<"A", "_", "B">>, "_CONFIG_JSON">>)

\* C21: an override whose text does not parse ("loud" as a log level, "xml"
\* as an output format, "65536" or " 4" as a u16, "maybe" or "2" as a
\* boolean, a CONFIG_JSON text that is an array or is not JSON) leaves its
\* field at the value it had before the call, and every override of the
\* same call whose text parses is applied whatever the other texts are.
C21_UnparseableIgnored ==
    EnvMerged =>
        LET old == rt_in.self
            new == rt_out.self
            ll == EnvText(<<"FORSETI_LINTER_LOG_LEVEL">>)
            of == EnvText(<<"FORSETI_LINTER_OUTPUT_FORMAT">>)
            pa == EnvText(<<"FORSETI_LINTER_PARALLELISM">>)
            fe == EnvText(<<"FORSETI_LINTER_FAIL_ON_ERROR">>)
        IN /\ new.linter.log_level =
                  IF ll = OS_LOG_LEVEL[2] THEN "Warn" ELSE old.linter.log_level
           /\ new.linter.output_format =
                  IF of = OS_OUTPUT_FORMAT[2] THEN "Sarif" ELSE old.linter.output_format
           /\ new.linter.parallelism =
                  IF pa = OS_PARALLELISM[2] THEN 12 ELSE old.linter.parallelism
           /\ new.linter.fail_on_error =
                  IF fe = OS_FAIL_ON_ERROR[2] THEN TRUE ELSE old.linter.fail_on_error
           \* both rulesets of the configuration have the upper id A_B
           /\ \A id \in DOMAIN old.ruleset :
                /\ new.ruleset[id].enabled =
                       IF AbEnabledText = OS_AB_ENABLED[2] THEN FALSE
                       ELSE old.ruleset[id].enabled
                /\ AbConfigJsonText # Some(JSON_TEXT_OBJECT) =>
                       new.ruleset[id].config = old.ruleset[id].config
                /\ AbConfigJsonText = Some(JSON_TEXT_OBJECT) =>
                       new.ruleset[id].config[K_MAX] = TInteger(100)
                /\ new.ruleset[id].git = old.ruleset[id].git
                /\ new.ruleset[id].path = old.ruleset[id].path

\* a call in which the log level, the boolean and the CONFIG_JSON do not
\* parse while the parallelism and the ruleset's ENABLED do
C21_Witness ==
    /\ EnvMerged
    /\ rt_in.self = OS_CONFIGS[2]
    /\ EnvText(<<"FORSETI_LINTER_LOG_LEVEL">>) = OS_LOG_LEVEL[3]
    /\ EnvText(<<"FORSETI_LINTER_FAIL_ON_ERROR">>) = OS_FAIL_ON_ERROR[3]
    /\ EnvText(<<"FORSETI_LINTER_PARALLELISM">>) = OS_PARALLELISM[2]
    /\ AbConfigJsonText = Some(JSON_TEXT_BROKEN)
    /\ AbEnabledText = OS_AB_ENABLED[2]
    /\ rt_out.self.linter.log_level = "Error"
    /\ rt_out.self.linter.parallelism = 12
    /\ rt_out.self.ruleset[ID_A_DASH_B].enabled = FALSE
    /\ rt_out.self.ruleset[ID_A_DASH_B].config[K_MAX] = TInteger(80)

\* the ids FORSETI_RULESET_IDS lists in the call
IdsListed ==
    LET ids == EnvText(<<"FORSETI_RULESET_IDS">>)
    IN IF ids = OS_IDS[2] THEN {ID_A_DASH_B, ID_C}
       ELSE IF ids = OS_IDS[3] THEN {ID_C}
       ELSE {}

\* no ENABLED and no CONFIG_JSON variable is set for the id
NoOverrideFor(id) ==
    LET U == IF id = ID_C THEN <<"C">> ELSE <<"A", "_", "B">>
    IN /\ EnvText(<<"FORSETI_RULESET_", U, "_ENABLED">>) = None
       /\ EnvText(<<"FORSETI_RULESET_", U, "_CONFIG_JSON">>) = None

\* C22: after the call the configuration has the ids it had and the listed
\* ids; a listed id that was not there and has no override of its own has
\* enabled = true, an empty config, no git and no path; an id that was
\* there and has no override keeps its entry.
C22_IdsInsertDefault ==
    EnvMerged =>
        LET old == rt_in.self.ruleset
            new == rt_out.self.ruleset
        IN /\ DOMAIN new = (DOMAIN old) \cup IdsListed
           /\ \A id \in IdsListed \ DOMAIN old :
                NoOverrideFor(id) =>
                    new[id] = [enabled |-> TRUE, config |-> <<>>,
                               git |-> None, path |-> None]
           /\ \A id \in DOMAIN old : NoOverrideFor(id) => new[id] = old[id]

\* the table a CONFIG_JSON text of the model stands for
TableOfText(cj) ==
    IF cj = Some(JSON_TEXT_OBJECT)
    THEN [k \in {K_MAX, K_TAGS, K_NIL} |->
            IF k = K_MAX THEN TInteger(100)
            ELSE IF k = K_TAGS THEN TArray(<<TInteger(1), TString(<<>>)>>)
            ELSE TString(<<>>)]
    ELSE IF cj = Some(JSON_TEXT_OBJECT_2) THEN [k \in {K_ON} |-> TBoolean(TRUE)]
    ELSE <<>>

\* C23: for every ruleset id of the configuration (listed ids included), an
\* ENABLED text that reads as a boolean sets enabled to it, and a
\* CONFIG_JSON text that is a JSON object gives every top-level key of the
\* object its value in config, while every other key of config keeps the
\* value it had and no key is added or removed.
C23_RulesetOverrides ==
    EnvMerged =>
        \A id \in DOMAIN rt_out.self.ruleset :
            LET U == IF id = ID_C THEN <<"C">> ELSE <<"A", "_", "B">>
                en == EnvText(<<"FORSETI_RULESET_", U, "_ENABLED">>)
                obj == TableOfText(EnvText(<<"FORSETI_RULESET_", U, "_CONFIG_JSON">>))
                prior == IF id \in DOMAIN rt_in.self.ruleset
                         THEN rt_in.self.ruleset[id].config ELSE <<>>
                new == rt_out.self.ruleset[id]
            IN /\ en = Some(<<"o", "f", "f">>) => new.enabled = FALSE
               /\ en = Some(<<"1">>) => new.enabled = TRUE
               /\ DOMAIN new.config = (DOMAIN prior) \cup (DOMAIN obj)
               /\ \A k \in DOMAIN obj : new.config[k] = obj[k]
               /\ \A k \in (DOMAIN prior) \ (DOMAIN obj) : new.config[k] = prior[k]

\* ENABLED=off and a CONFIG_JSON object for a ruleset that is enabled and
\* has the key of the object and one more
C23_Witness ==
    /\ EnvMerged
    /\ rt_in.self = OS_CONFIGS[2]
    /\ AbEnabledText = Some(<<"o", "f", "f">>)
    /\ AbConfigJsonText = Some(JSON_TEXT_OBJECT)
    /\ rt_in.self.ruleset[ID_A_DASH_B].enabled = TRUE
    /\ rt_in.self.ruleset[ID_A_DASH_B].config[K_MAX] = TInteger(80)
    /\ rt_out.self.ruleset[ID_A_DASH_B].enabled = FALSE
    /\ rt_out.self.ruleset[ID_A_DASH_B].config[K_MAX] = TInteger(100)
    /\ rt_out.self.ruleset[ID_A_DASH_B].config[K_KEEP] = TString(<<"k">>)

(***************************************************************************)
(* Host side (linter.rs): EngineProcess, EngineHandle, EngineManager and   *)
(* the child processes they drive.                                         *)
(***************************************************************************)
\* Number of calls on an EngineManager in one run.
MaxCalls == 3
\* Number of calls on an EngineHandle held without a manager in one run.
MaxHandleCalls == 4

\* The engine binaries discover_engines finds, by engine id:
\*   "a", "b"  an EngineServer whose rulesets load,
\*   "bad"     an EngineServer whose load_ruleset fails,
\*   "nok"     a program that answers initialize without ok = true,
\*   "noexec"  a file that cannot be executed.
DISCOVERED == {"a", "b", "bad", "nok", "noexec"}
\* the ids start_engine is called with; "x" is not discovered
START_IDS == DISCOVERED \cup {"x"}
\* the ids analyze_file and shutdown_engine are called with
HOST_IDS == {"a", "b", "x"}
HOST_URIS == {"u1", "u2"}

\* the lines of the two pipes: requests of the host, and the responses and
\* events of the engine (ok is payload.ok, uri the payload's uri)
HostReq(typ, id, uri, engineConfig) ==
    [kind |-> "req", typ |-> typ, id |-> id, ok |-> FALSE, uri |-> uri,
     engineConfig |-> engineConfig]
EngineRes(typ, id, ok) ==
    [kind |-> "res", typ |-> typ, id |-> id, ok |-> ok, uri |-> "",
     engineConfig |-> EngineConfigDefault]
EngineDiagnostics(uri) ==
    [kind |-> "event", typ |-> "diagnostics", id |-> <<>>, ok |-> FALSE, uri |-> uri,
     engineConfig |-> EngineConfigDefault]

\* the config argument of start_engine: Option<EngineConfig>
HOST_CONFIGS == <<None, Some([enabled |-> Some(FALSE), rulesets |-> None])>>

\* Command::spawn: a running child with both pipes open. A child is
\* "running", "exited" (run_stdio returned at end of input) or "died".
\* received are the lines it read, written the lines it wrote to its
\* stdout, outbox those of them the host has not read yet.
NewProc(bin) ==
    [bin |-> bin, state |-> "running", stdin |-> "open", received |-> <<>>,
     written |-> <<>>, outbox |-> <<>>, initialized |-> FALSE]

\* EngineServer::send: the lines go to the child's stdout
Emit(pr, ls) == [pr EXCEPT !.written = @ \o ls, !.outbox = @ \o ls]

\* What the program behind a binary does with one request line (run_stdio
\* and the handlers of EngineServer): the lines it writes to its stdout and
\* whether it goes on.
EngineProgram_handle(pr, req) ==
    LET got == [pr EXCEPT !.received = Append(@, req)]
    IN IF req.typ = "initialize"
       THEN IF pr.bin \in {"a", "b"}
            THEN Emit([got EXCEPT !.initialized = TRUE],
                      <<EngineRes("initialize", req.id, TRUE)>>)
            ELSE IF pr.bin = "bad"
            THEN [got EXCEPT !.state = "died"]
            ELSE Emit(got, <<EngineRes("initialize", req.id, FALSE)>>)
       ELSE IF req.typ = "shutdown"
       THEN Emit([got EXCEPT !.initialized = FALSE],
                 <<EngineRes("shutdown", req.id, TRUE)>>)
       ELSE IF ~pr.initialized
       THEN Emit(got, <<EngineRes("analyzeFile", req.id, FALSE)>>)
       ELSE Emit(got, <<EngineDiagnostics(req.uri), EngineRes("analyzeFile", req.id, TRUE)>>)

\* What becomes of the child during a call of the host: it "serves" the
\* request, it is "gone" (it died since the last call, of a panic or a
\* signal) or it "dies" while it handles the request.
FATES == {"serves", "gone", "dies"}

\* Variant of send_line: a line written to a child that is gone is taken
\* by the pipe as if the child would still read it.
send_line_buffers(ps, p, line, fate) ==
    IF ps[p].state # "running" \/ fate = "gone"
    THEN [ok |-> TRUE,
          procs |-> [ps EXCEPT ![p].received = Append(@, line), ![p].state = "died"]]
    ELSE IF fate = "dies"
    THEN [ok |-> TRUE,
          procs |-> [ps EXCEPT ![p].received = Append(@, line), ![p].state = "died"]]
    ELSE [ok |-> TRUE, procs |-> [ps EXCEPT ![p] = EngineProgram_handle(@, line)]]

\* EngineProcess::send_line: the write fails when the child is gone; a
\* child that gets the line handles it before the host reads, or dies
\* while handling it
send_line(ps, p, line, fate) ==
    IF ps[p].state # "running" THEN [ok |-> FALSE, procs |-> ps]
    ELSE IF fate = "gone"
    THEN [ok |-> FALSE, procs |-> [ps EXCEPT ![p].state = "died"]]
    ELSE IF fate = "dies"
    THEN [ok |-> TRUE,
          procs |-> [ps EXCEPT ![p].received = Append(@, line), ![p].state = "died"]]
    ELSE [ok |-> TRUE, procs |-> [ps EXCEPT ![p] = EngineProgram_handle(@, line)]]

\* EngineHandle::read_response over EngineProcess::read_line: the next line
\* of the child's stdout; at end of file read_line gives "" and the JSON
\* parse fails; with nothing to read and a running child the call blocks
read_response(ps, p) ==
    IF ps[p].outbox # <<>>
    THEN [ok |-> TRUE, err |-> "", line |-> Head(ps[p].outbox),
          procs |-> [ps EXCEPT ![p].outbox = Tail(@)]]
    ELSE IF ps[p].state # "running"
    THEN [ok |-> FALSE, err |-> "read", line |-> EngineRes("", <<>>, FALSE), procs |-> ps]
    ELSE [ok |-> FALSE, err |-> "blocked", line |-> EngineRes("", <<>>, FALSE), procs |-> ps]

\* Variant of drop: the pipes stay open.
drop_keeps_stdin(ps, p) == ps

\* dropping an EngineProcess closes the host's ends of both pipes; the
\* child is neither killed nor waited for
drop(ps, p) == [ps EXCEPT ![p].stdin = "closed"]

\* Variant of next_request_id: the counter is not advanced.
next_request_id_same(h) ==
    [h |-> h, id |-> <<h.info, h.request_counter + 1>>]

\* EngineHandle::next_request_id: format!("{}_{}", info.id, counter) is the
\* pair of the id and the counter
next_request_id(h) ==
    [h |-> [h EXCEPT !.request_counter = @ + 1],
     id |-> <<h.info, h.request_counter + 1>>]

\* what a call on a handle leaves: the handle, the processes, Ok or Err
Outcome(h, ps, ok, err, diagnostics) ==
    [h |-> h, procs |-> ps, ok |-> ok, err |-> err, diagnostics |-> diagnostics]

\* Variant of EngineHandle_initialize: any response is taken as success.
EngineHandle_initialize_any_response(h, ps, engine_config, fate) ==
    LET a == next_request_id(h)
        s == send_line(ps, h.process,
                       HostReq("initialize", a.id, "", unwrap_or(engine_config, EngineConfigDefault)),
                       fate)
        r == read_response(s.procs, h.process)
    IN IF ~s.ok THEN Outcome(a.h, s.procs, FALSE, "send", "")
       ELSE IF ~r.ok THEN Outcome(a.h, r.procs, FALSE, r.err, "")
       ELSE Outcome([a.h EXCEPT !.initialized = TRUE], r.procs, TRUE, "", "")

\* EngineHandle::initialize
EngineHandle_initialize(h, ps, engine_config, fate) ==
    LET a == next_request_id(h)
        s == send_line(ps, h.process,
                       HostReq("initialize", a.id, "", unwrap_or(engine_config, EngineConfigDefault)),
                       fate)
        r == read_response(s.procs, h.process)
    IN IF ~s.ok THEN Outcome(a.h, s.procs, FALSE, "send", "")
       ELSE IF ~r.ok THEN Outcome(a.h, r.procs, FALSE, r.err, "")
       ELSE IF r.line.ok
       THEN Outcome([a.h EXCEPT !.initialized = TRUE], r.procs, TRUE, "", "")
       ELSE Outcome(a.h, r.procs, FALSE, "initialization failed", "")

\* Variant of EngineHandle_new: the handle is returned whether or not its
\* initialize succeeded.
EngineHandle_new_keeps_failed(engine_info, ps, engine_config, fate) ==
    IF engine_info = "noexec" THEN Outcome(<<>>, ps, FALSE, "spawn", "")
    ELSE LET p == Len(ps) + 1
             handle == [info |-> engine_info, process |-> p, initialized |-> FALSE,
                        last_activity |-> now, request_counter |-> 0]
             r == EngineHandle_initialize(handle, Append(ps, NewProc(engine_info)), engine_config, fate)
         IN Outcome(r.h, r.procs, TRUE, "", "")

\* EngineHandle::new: spawn, then initialize; when initialize fails the
\* handle is dropped
EngineHandle_new(engine_info, ps, engine_config, fate) ==
    IF engine_info = "noexec" THEN Outcome(<<>>, ps, FALSE, "spawn", "")
    ELSE LET p == Len(ps) + 1
             handle == [info |-> engine_info, process |-> p, initialized |-> FALSE,
                        last_activity |-> now, request_counter |-> 0]
             r == EngineHandle_initialize(handle, Append(ps, NewProc(engine_info)), engine_config, fate)
         IN IF r.ok THEN r ELSE Outcome(<<>>, drop(r.procs, p), FALSE, r.err, "")

\* Variant of EngineHandle_analyze_file: the request is sent whether or
\* not the handle is initialized.
EngineHandle_analyze_file_unguarded(h, ps, uri, fate) ==
    LET a == next_request_id(h)
        s == send_line(ps, h.process, HostReq("analyzeFile", a.id, uri, EngineConfigDefault), fate)
        r1 == read_response(s.procs, h.process)
        r2 == read_response(r1.procs, h.process)
    IN IF ~s.ok THEN Outcome(a.h, s.procs, FALSE, "send", "")
       ELSE IF ~r1.ok THEN Outcome(a.h, r1.procs, FALSE, r1.err, "")
       ELSE IF ~r2.ok THEN Outcome(a.h, r2.procs, FALSE, r2.err, "")
       ELSE Outcome([a.h EXCEPT !.last_activity = now], r2.procs, TRUE, "",
                    IF r1.line.typ = "diagnostics" THEN r1.line.uri ELSE "")

\* Variant of EngineHandle_analyze_file: the completion response is not
\* read.
EngineHandle_analyze_file_one_read(h, ps, uri, fate) ==
    IF ~h.initialized THEN Outcome(h, ps, FALSE, "not initialized", "")
    ELSE LET a == next_request_id(h)
             s == send_line(ps, h.process, HostReq("analyzeFile", a.id, uri, EngineConfigDefault), fate)
             r1 == read_response(s.procs, h.process)
         IN IF ~s.ok THEN Outcome(a.h, s.procs, FALSE, "send", "")
            ELSE IF ~r1.ok THEN Outcome(a.h, r1.procs, FALSE, r1.err, "")
            ELSE Outcome([a.h EXCEPT !.last_activity = now], r1.procs, TRUE, "",
                         IF r1.line.typ = "diagnostics" THEN r1.line.uri ELSE "")

\* EngineHandle::analyze_file; the diagnostics are held as the uri the
\* diagnostics event names
EngineHandle_analyze_file(h, ps, uri, fate) ==
    IF ~h.initialized THEN Outcome(h, ps, FALSE, "not initialized", "")
    ELSE LET a == next_request_id(h)
             s == send_line(ps, h.process, HostReq("analyzeFile", a.id, uri, EngineConfigDefault), fate)
             r1 == read_response(s.procs, h.process)
             r2 == read_response(r1.procs, h.process)
         IN IF ~s.ok THEN Outcome(a.h, s.procs, FALSE, "send", "")
            ELSE IF ~r1.ok THEN Outcome(a.h, r1.procs, FALSE, r1.err, "")
            ELSE IF ~r2.ok THEN Outcome(a.h, r2.procs, FALSE, r2.err, "")
            ELSE Outcome([a.h EXCEPT !.last_activity = now], r2.procs, TRUE, "",
                         IF r1.line.typ = "diagnostics" THEN r1.line.uri ELSE "")

\* EngineHandle::shutdown
EngineHandle_shutdown(h, ps, fate) ==
    IF ~h.initialized THEN Outcome(h, ps, TRUE, "", "")
    ELSE LET a == next_request_id(h)
             s == send_line(ps, h.process, HostReq("shutdown", a.id, "", EngineConfigDefault), fate)
             r == read_response(s.procs, h.process)
         IN IF ~s.ok THEN Outcome(a.h, s.procs, FALSE, "send", "")
            ELSE IF ~r.ok THEN Outcome(a.h, r.procs, FALSE, r.err, "")
            ELSE Outcome([a.h EXCEPT !.initialized = FALSE], r.procs, TRUE, "", "")

\* HashMap::insert / HashMap::remove on the engines table
TableInsert(t, id, h) == [k \in (DOMAIN t) \cup {id} |-> IF k = id THEN h ELSE t[k]]
TableRemove(t, id) == [k \in (DOMAIN t) \ {id} |-> t[k]]

\* the record of a host call: its number, what was called with which id,
\* Ok or Err, and the table keys and the handle's flag before the call
Returns(op, id, ok, err, was_initialized) ==
    ret' = [n |-> ret.n + 1, op |-> op, id |-> id, ok |-> ok, err |-> err,
            keys |-> DOMAIN engines, was_initialized |-> was_initialized]

\* the record of a call that returns an EngineAnalysisResult: also the uri
\* it was called with and, when Ok, the diagnostics of the result
ReturnsResult(op, id, r, uri, was_initialized) ==
    ret' = [n |-> ret.n + 1, op |-> op, id |-> id, ok |-> r.ok, err |-> r.err,
            keys |-> DOMAIN engines, was_initialized |-> was_initialized,
            uri |-> uri, diagnostics |-> r.diagnostics]

CanCall == ret.n < MaxCalls
CallerCanCall == ret.n < MaxHandleCalls

\* Variant of start_engine: the table is not looked at first.
start_engine_always_spawns(t, ps, id, engine_config, fate) ==
    IF id \notin DISCOVERED
    THEN [engines |-> t, procs |-> ps, ok |-> FALSE, err |-> "not found"]
    ELSE LET r == EngineHandle_new(id, ps, engine_config, fate)
         IN [engines |-> IF r.ok THEN TableInsert(t, id, r.h) ELSE t,
             procs |-> r.procs, ok |-> r.ok, err |-> r.err]

\* EngineManager::start_engine as a function of the table and the
\* processes
start_engine(t, ps, id, engine_config, fate) ==
    IF id \in DOMAIN t
    THEN [engines |-> t, procs |-> ps, ok |-> TRUE, err |-> ""]
    ELSE IF id \notin DISCOVERED
    THEN [engines |-> t, procs |-> ps, ok |-> FALSE, err |-> "not found"]
    ELSE LET r == EngineHandle_new(id, ps, engine_config, fate)
         IN [engines |-> IF r.ok THEN TableInsert(t, id, r.h) ELSE t,
             procs |-> r.procs, ok |-> r.ok, err |-> r.err]

\* EngineManager::start_engine
EngineManager_start_engine ==
    /\ CanCall
    /\ \E id \in START_IDS, c \in DOMAIN HOST_CONFIGS, fate \in FATES :
         LET r == start_engine(engines, procs, id, HOST_CONFIGS[c], fate)
         IN /\ r.err # "blocked"
            /\ engines' = r.engines
            /\ procs' = r.procs
            /\ Returns("start_engine", id, r.ok, r.err,
                       id \in DOMAIN engines /\ engines[id].initialized)
    /\ UNCHANGED <<serverVars, rtVars, own, now>>

\* EngineManager::analyze_file
EngineManager_analyze_file ==
    /\ CanCall
    /\ \E id \in HOST_IDS, uri \in HOST_URIS, fate \in FATES :
         IF id \notin DOMAIN engines
         THEN /\ ReturnsResult("analyze_file", id,
                               Outcome(<<>>, procs, FALSE, "not running", ""), uri, FALSE)
              /\ UNCHANGED <<engines, procs>>
         ELSE LET r == EngineHandle_analyze_file(engines[id], procs, uri, fate)
              IN /\ r.err # "blocked"
                 /\ engines' = [engines EXCEPT ![id] = r.h]
                 /\ procs' = r.procs
                 /\ ReturnsResult("analyze_file", id, r, uri, engines[id].initialized)
    /\ UNCHANGED <<serverVars, rtVars, own, now>>

\* Variant of shutdown_engine: a handle whose shutdown fails stays in the
\* table.
shutdown_engine_keeps_failed(t, ps, id, fate) ==
    IF id \notin DOMAIN t THEN [engines |-> t, procs |-> ps, ok |-> TRUE, err |-> ""]
    ELSE LET r == EngineHandle_shutdown(t[id], ps, fate)
         IN IF r.ok
            THEN [engines |-> TableRemove(t, id), procs |-> drop(r.procs, t[id].process),
                  ok |-> TRUE, err |-> ""]
            ELSE [engines |-> [t EXCEPT ![id] = r.h], procs |-> r.procs,
                  ok |-> FALSE, err |-> r.err]

\* EngineManager::shutdown_engine as a function of the table and the
\* processes: the handle is taken out of the table, shut down and dropped
shutdown_engine(t, ps, id, fate) ==
    IF id \notin DOMAIN t THEN [engines |-> t, procs |-> ps, ok |-> TRUE, err |-> ""]
    ELSE LET r == EngineHandle_shutdown(t[id], ps, fate)
         IN [engines |-> TableRemove(t, id), procs |-> drop(r.procs, t[id].process),
             ok |-> r.ok, err |-> r.err]

\* EngineManager::shutdown_engine
EngineManager_shutdown_engine ==
    /\ CanCall
    /\ \E id \in HOST_IDS, fate \in FATES :
         LET r == shutdown_engine(engines, procs, id, fate)
         IN /\ r.err # "blocked"
            /\ engines' = r.engines
            /\ procs' = r.procs
            /\ Returns("shutdown_engine", id, r.ok, r.err,
                       id \in DOMAIN engines /\ engines[id].initialized)
    /\ UNCHANGED <<serverVars, rtVars, own, now>>

\* the loop of shutdown_all over the snapshot of the keys, in the order o;
\* the ? returns at the first Err
RECURSIVE ShutdownFrom(_, _, _, _, _)
ShutdownFrom(t, ps, o, i, fates) ==
    IF i > Len(o) THEN [engines |-> t, procs |-> ps, ok |-> TRUE, err |-> ""]
    ELSE LET r == shutdown_engine(t, ps, o[i], fates[o[i]])
         IN IF ~r.ok THEN r ELSE ShutdownFrom(r.engines, r.procs, o, i + 1, fates)

\* EngineManager::shutdown_all
EngineManager_shutdown_all ==
    /\ CanCall
    /\ \E o \in Orders(DOMAIN engines), fates \in [DOMAIN engines -> FATES] :
         LET r == ShutdownFrom(engines, procs, o, 1, fates)
         IN /\ r.err # "blocked"
            /\ engines' = r.engines
            /\ procs' = r.procs
            /\ Returns("shutdown_all", "", r.ok, r.err, FALSE)
    /\ UNCHANGED <<serverVars, rtVars, own, now>>

\* EngineManager::running_engines
running_engines == DOMAIN engines

\* the manager goes out of scope: every handle of the table is dropped
RECURSIVE DropAll(_, _)
DropAll(ps, P) ==
    IF P = {} THEN ps
    ELSE LET p == CHOOSE x \in P : TRUE IN DropAll(drop(ps, p), P \ {p})

EngineManager_drop ==
    /\ CanCall
    /\ engines # <<>>
    /\ procs' = DropAll(procs, {engines[id].process : id \in DOMAIN engines})
    /\ engines' = <<>>
    /\ Returns("drop", "", TRUE, "", FALSE)
    /\ UNCHANGED <<serverVars, rtVars, own, now>>

\* EngineHandle::new called by a caller that keeps the handle
Caller_new ==
    /\ CallerCanCall
    /\ own = None
    /\ \E id \in DISCOVERED, fate \in FATES :
         LET r == EngineHandle_new(id, procs, None, fate)
         IN /\ r.err # "blocked"
            /\ own' = IF r.ok THEN Some(r.h) ELSE None
            /\ procs' = r.procs
            /\ Returns("EngineHandle::new", id, r.ok, r.err, FALSE)
    /\ UNCHANGED <<serverVars, rtVars, engines, now>>

\* EngineHandle::analyze_file on that handle
Caller_analyze_file ==
    /\ CallerCanCall
    /\ own # None
    /\ \E uri \in HOST_URIS, fate \in FATES :
         LET r == EngineHandle_analyze_file(own[1], procs, uri, fate)
         IN /\ r.err # "blocked"
            /\ own' = Some(r.h)
            /\ procs' = r.procs
            /\ ReturnsResult("EngineHandle::analyze_file", own[1].info, r, uri,
                             own[1].initialized)
    /\ UNCHANGED <<serverVars, rtVars, engines, now>>

\* EngineHandle::shutdown on that handle
Caller_shutdown ==
    /\ CallerCanCall
    /\ own # None
    /\ \E fate \in FATES :
         LET r == EngineHandle_shutdown(own[1], procs, fate)
         IN /\ r.err # "blocked"
            /\ own' = Some(r.h)
            /\ procs' = r.procs
            /\ Returns("EngineHandle::shutdown", own[1].info, r.ok, r.err,
                       own[1].initialized)
    /\ UNCHANGED <<serverVars, rtVars, engines, now>>

\* the caller lets its handle go out of scope
Caller_drop ==
    /\ CallerCanCall
    /\ own # None
    /\ own' = None
    /\ procs' = drop(procs, own[1].process)
    /\ Returns("EngineHandle::drop", own[1].info, TRUE, "", own[1].initialized)
    /\ UNCHANGED <<serverVars, rtVars, engines, now>>

\* the programs built on run_stdio
RunsServerLoop(pr) == pr.bin \in {"a", "b", "bad"}

\* run_stdio of a child whose stdin the host has closed: read_line_value
\* fails with UnexpectedEof, the loop ends and the process exits
Engine_eof(p) ==
    /\ p <= Len(procs)
    /\ RunsServerLoop(procs[p])
    /\ procs[p].state = "running"
    /\ procs[p].stdin = "closed"
    /\ procs' = [procs EXCEPT ![p].state = "exited"]
    /\ UNCHANGED <<serverVars, rtVars, engines, own, now, ret>>

InitHost == ServerIdle /\ RtIdle

NextHost ==
    \/ EngineManager_start_engine
    \/ EngineManager_analyze_file
    \/ EngineManager_shutdown_engine
    \/ EngineManager_shutdown_all
    \/ EngineManager_drop
    \/ \E p \in DOMAIN procs : Engine_eof(p)

SpecHost == InitHost /\ [][NextHost]_vars

\* the operating system runs every child process
SpecHostFair == SpecHost /\ \A p \in 1..MaxCalls : WF_vars(Engine_eof(p))

\* an EngineHandle used without a manager
NextHandle ==
    \/ Caller_new
    \/ Caller_analyze_file
    \/ Caller_shutdown
    \/ Caller_drop
    \/ \E p \in DOMAIN procs : Engine_eof(p)

SpecHandle == InitHost /\ [][NextHandle]_vars

\* the step is the call op of the host
IsCall(op) == ret'.n = ret.n + 1 /\ ret'.op = op

\* C24: a call of analyze_file on a handle that is not initialized returns
\* an error and writes nothing to the engine (no process and no field of
\* the handle changes); a handle is not initialized after a shutdown that
\* returned Ok, and EngineHandle::new gives no handle when its initialize
\* did not succeed.
C24_AnalyzeGuard ==
    [][/\ (IsCall("EngineHandle::analyze_file") /\ ~own[1].initialized) =>
              (~ret'.ok /\ procs' = procs /\ own' = own)
       /\ (IsCall("EngineHandle::shutdown") /\ ret'.ok) => ~own'[1].initialized
       /\ IsCall("EngineHandle::new") =>
              IF ret'.ok THEN own'[1].initialized ELSE own' = None]_vars

\* analyze_file was called on a handle after its shutdown succeeded: the
\* engine runs, and the shutdown request is the last line it got
C24_Witness ==
    /\ ret.op = "EngineHandle::analyze_file"
    /\ ~ret.was_initialized
    /\ ~ret.ok
    /\ own # None
    /\ procs[own[1].process].state = "running"
    /\ procs[own[1].process].received[Len(procs[own[1].process].received)].typ = "shutdown"
    /\ own[1].request_counter = Len(procs[own[1].process].received)

\* a child that runs the server loop and has no handle any more has its
\* stdin closed
HeldProcs ==
    {engines[id].process : id \in DOMAIN engines} \cup
    (IF own = None THEN {} ELSE {own[1].process})
NoOpenOrphan == \A p \in DOMAIN procs : procs[p].stdin = "open" => p \in HeldProcs

\* the p-th child runs the server loop and its stdin is closed
ServerLoopAtEof(p) ==
    IF p \in DOMAIN procs
    THEN procs[p].stdin = "closed" /\ RunsServerLoop(procs[p])
    ELSE FALSE
NotRunning(p) == IF p \in DOMAIN procs THEN procs[p].state # "running" ELSE FALSE

\* C25: every child process whose handle is gone (dropped by
\* shutdown_engine, by a start_engine that failed, or with the manager) has
\* its stdin closed, and every such child that runs the server loop is
\* eventually not running any more.
C25_NoLeakedChild ==
    /\ []NoOpenOrphan
    /\ \A p \in 1..MaxCalls : ServerLoopAtEof(p) ~> NotRunning(p)

\* an engine that was initialized and never shut down has left its loop
\* after the manager was dropped
C25_Witness ==
    /\ ret.op = "drop"
    /\ \E p \in DOMAIN procs :
         /\ procs[p].stdin = "closed"
         /\ procs[p].state = "exited"
         /\ procs[p].initialized
         /\ Len(procs[p].received) = 1

\* C26: the n-th request line a child got from its handle has the id
\* <engine id>_<n>, so the ids of one handle increase by one and none is
\* used twice.
C26_RequestIds ==
    \A p \in DOMAIN procs :
        \A n \in 1..Len(procs[p].received) :
            procs[p].received[n].id = <<procs[p].bin, n>>

\* a handle has sent three requests, the last of which failed after its id
\* was allocated and sent
C26_Witness ==
    /\ own # None
    /\ Len(procs[own[1].process].received) = 3
    /\ procs[own[1].process].received[3].id = <<own[1].info, 3>>
    /\ own[1].request_counter = 3
    /\ ~ret.ok
    /\ ret.err = "read"

\* C27: start_engine for an id that is in the table returns Ok and changes
\* neither the table (so no field of a handle) nor any process, whatever
\* the config.
C27_StartRunningNoop ==
    [][(IsCall("start_engine") /\ ret'.id \in DOMAIN engines) =>
           (ret'.ok /\ engines' = engines /\ procs' = procs)]_vars

\* start_engine was called for an engine that runs and has analyzed a file
C27_Witness ==
    /\ ret.op = "start_engine"
    /\ ret.id \in ret.keys
    /\ ret.ok
    /\ ret.id \in DOMAIN engines
    /\ engines[ret.id].request_counter = 2
    /\ Len(procs) = 1

\* C28: start_engine returns an error for an id that is not discovered, for
\* a binary that cannot be spawned and for an engine whose response to
\* initialize has no ok = true; whenever it returns an error the table is
\* as before and the child spawned for the attempt, if any, has its pipes
\* closed.
C28_StartFailure ==
    [][IsCall("start_engine") =>
           /\ (ret'.id \notin DOMAIN engines /\ ret'.id \in {"x", "noexec", "nok"}) => ~ret'.ok
           /\ ~ret'.ok =>
                  /\ engines' = engines
                  /\ \A p \in (DOMAIN procs') \ (DOMAIN procs) : procs'[p].stdin = "closed"
                  /\ \A p \in DOMAIN procs : procs'[p] = procs[p]]_vars

\* a start_engine failed at the initialize response while another engine
\* was running
C28_Witness ==
    /\ ret.op = "start_engine"
    /\ ~ret.ok
    /\ ret.err = "initialization failed"
    /\ ret.keys = {"a"}
    /\ DOMAIN engines = {"a"}
    /\ procs[Len(procs)].bin = "nok"
    /\ procs[Len(procs)].stdin = "closed"

\* C29: after shutdown_engine(id), with Ok or with an error, id is not in
\* the table and every other entry is as before; for an id that is not in
\* the table the call returns Ok and writes nothing.
C29_ShutdownRemoves ==
    [][IsCall("shutdown_engine") =>
           /\ DOMAIN engines' = (DOMAIN engines) \ {ret'.id}
           /\ \A k \in DOMAIN engines' : engines'[k] = engines[k]
           /\ ret'.id \notin DOMAIN engines => (ret'.ok /\ procs' = procs)]_vars

\* a shutdown_engine returned an error while another engine was running
C29_Witness ==
    /\ ret.op = "shutdown_engine"
    /\ ~ret.ok
    /\ ret.keys = {"a", "b"}
    /\ DOMAIN engines = {"a", "b"} \ {ret.id}

\* C30: after shutdown_all, with Ok or with an error, no engine of the
\* snapshot is in the table: running_engines() is empty.
C30_ShutdownAllEmpties ==
    [][IsCall("shutdown_all") => running_engines' = {}]_vars

(***************************************************************************)
(* The queries of the servers.                                             *)
(***************************************************************************)
QUERY_TYPES == {"getDefaultConfig", "getCapabilities", "preprocessFiles"}

\* C37: a getDefaultConfig, getCapabilities or preprocessFiles request,
\* read before or after initialize, is answered by one response of its type
\* and id and leaves the initialized flag, the stored configuration and the
\* loaded rulesets as they were.
C37_QueriesKeepState ==
    \A i \in 1..Len(reqs) :
        \A typ \in QUERY_TYPES :
            IsRequest(i, typ) =>
                /\ reqs[i].same_state
                /\ reqs[i].init_after = reqs[i].init_before
                /\ Cardinality({k \in 1..Len(Written(i)) :
                       IsRes(Written(i)[k], typ, reqs[i].line.id)}) = 1

(***************************************************************************)
(* The order of the diagnostics of a run.                                  *)
(***************************************************************************)
\* the annotations and the parser a single-file entry point runs with
RunAnnotations == IF rt_out.fn = "run_ruleset" THEN <<>> ELSE RtAnnotations
RunParser == IF rt_out.fn = "run_ruleset" THEN None ELSE rt_in.annotation_parser

\* the lines on which a rule's finding is not masked by an annotation
UnmaskedLines(rule) ==
    {l \in 0..(Len(lines(rt_in.text)) - 1) :
        /\ Flagged(rule.kind, lines(rt_in.text)[l + 1])
        /\ ~(/\ RunParser # None
             /\ \E k \in 1..Len(RunAnnotations) :
                    AnnotationMatches(RunAnnotations[k], rule.id, l))}

\* the position of a rule in the ruleset
RuleIndex(id) == CHOOSE i \in 1..Len(rt_in.rs.rules) : rt_in.rs.rules[i].id = id

\* C35: the result of run_ruleset_with_annotations (and of run_ruleset, which
\* delegates to it) is the concatenation, in the order of the ruleset's
\* rules, of the unmasked diagnostics of each enabled rule, each rule's own
\* diagnostics in the order it reported them, with none twice: a rule starts
\* with an empty list of its own.
C35_RuleOrder ==
    rt_out.fn \in {"run_ruleset", "run_ruleset_with_annotations"} =>
        /\ \A d \in 1..Len(rt_out.all) :
               \E i \in 1..Len(rt_in.rs.rules) :
                   /\ rt_in.rs.rules[i].id = rt_out.all[d].rule_id
                   /\ rt_out.all[d].rule_id \in DOMAIN rt_in.options
        /\ \A d, e \in 1..Len(rt_out.all) :
               d < e =>
                   \/ RuleIndex(rt_out.all[d].rule_id) < RuleIndex(rt_out.all[e].rule_id)
                   \/ /\ rt_out.all[d].rule_id = rt_out.all[e].rule_id
                      /\ rt_out.all[d].line < rt_out.all[e].line
        /\ \A i \in 1..Len(rt_in.rs.rules) :
               rt_in.rs.rules[i].id \in DOMAIN rt_in.options =>
                   {rt_out.all[d].line : d \in {x \in 1..Len(rt_out.all) :
                        rt_out.all[x].rule_id = rt_in.rs.rules[i].id}}
                   = UnmaskedLines(rt_in.rs.rules[i])

\* three enabled rules, each with a finding that is kept, and a finding of
\* the first rule masked by an annotation
C35_Witness ==
    /\ rt_out.fn = "run_ruleset_with_annotations"
    /\ rt_in.rs = RS_ALL
    /\ DOMAIN rt_in.options = {RULE_WS, RULE_NX, RULE_LL}
    /\ rt_in.annotation_parser # None
    /\ \A i \in 1..3 : UnmaskedLines(rt_in.rs.rules[i]) # {}
    /\ \E l \in 0..(Len(lines(rt_in.text)) - 1) :
           /\ Flagged("trailing_ws", lines(rt_in.text)[l + 1])
           /\ l \notin UnmaskedLines(rt_in.rs.rules[1])
    /\ Len(rt_out.all) >= 3

(***************************************************************************)
(* Re-initialization of EngineServer.                                      *)
(***************************************************************************)
\* the i-th line is an envelope of this type, with or without an id
IsOfType(i, typ) ==
    reqs[i].line.cls = "json" /\ reqs[i].line.env_ok /\ reqs[i].line.typ = Some(typ)

\* the i-th line is the most recent initialize that succeeded, and no
\* shutdown was read since
LatestInitialize(i) ==
    /\ server = "engine"
    /\ IsRequest(i, "initialize")
    /\ AnsweredOk(i, "initialize")
    /\ \A j \in (i + 1)..Len(reqs) :
           ~IsOfType(j, "initialize") /\ ~IsOfType(j, "shutdown")

\* C40: after successful initialize requests on EngineServer, the stored
\* configuration is the merged configuration of the most recent one, the
\* loaded ruleset ids are exactly the ruleset ids of that configuration, and
\* the active options of each loaded ruleset are those its entry in that
\* configuration gives: nothing of an earlier initialize survives.
C40_ReinitializeReplaces ==
    \A i \in 1..Len(reqs) :
        LatestInitialize(i) =>
            /\ cfg = MergedConfigOf(i)
            /\ DOMAIN loaded = DOMAIN MergedConfigOf(i).rulesets[1]
            /\ \A rs \in DOMAIN loaded :
                   LET entry == MergedConfigOf(i).rulesets[1][rs]
                   IN /\ loaded[rs].ruleset = load_ruleset(rs)[1]
                      /\ loaded[rs].config = active_config(entry)
                      /\ \A r \in DOMAIN loaded[rs].config :
                             entry.tag = "obj" /\ r \in DOMAIN entry.val

\* two successful initialize requests, the second naming fewer rulesets and
\* fewer rules than the first
C40_Witness ==
    \E i, k \in 1..Len(reqs) :
        /\ i < k
        /\ IsRequest(i, "initialize") /\ AnsweredOk(i, "initialize")
        /\ LatestInitialize(k)
        /\ DOMAIN MergedConfigOf(i).rulesets[1] = {"basic", "extra"}
        /\ DOMAIN loaded = {"basic"}
        /\ DOMAIN active_config(MergedConfigOf(i).rulesets[1]["basic"])
               # DOMAIN loaded["basic"].config

(***************************************************************************)
(* Failures of the child during a call of the manager.                     *)
(***************************************************************************)
\* the step is analyze_file on an engine of the table whose child is dead
\* when the call returns (it died before the call or while it handled it)
AnalyzeOnDeadChild ==
    /\ IsCall("analyze_file")
    /\ ret'.id \in DOMAIN engines
    /\ procs'[engines[ret'.id].process].state # "running"

\* C32: analyze_file on an engine whose process has died returns an error,
\* and the handle is dropped: the id is not in running_engines() after the
\* call.
C32_CrashDropsHandle ==
    [][AnalyzeOnDeadChild => (~ret'.ok /\ ret'.id \notin running_engines')]_vars

(***************************************************************************)
(* The stream between a handle and its engine.                             *)
(***************************************************************************)
\* the responses a child wrote, in the order it wrote them
Responses(p) == SelectSeq(procs[p].written, LAMBDA m : m.kind = "res")

\* C36: no line an engine wrote stays unread between two calls of the host,
\* and an analyze_file call on a handle that returns Ok has sent one request,
\* the engine has written for it the diagnostics event of the request's uri
\* and then the response with the request's id, the call has read both and
\* returns the diagnostics of that event.
C36_StreamInSync ==
    [][/\ \A p \in DOMAIN procs' : procs'[p].outbox = <<>>
       /\ (IsCall("EngineHandle::analyze_file") /\ ret'.ok) =>
              LET p == own[1].process
                  request_id == <<own[1].info, own[1].request_counter + 1>>
              IN /\ procs'[p].received =
                        Append(procs[p].received,
                               HostReq("analyzeFile", request_id, ret'.uri, EngineConfigDefault))
                 /\ procs'[p].written =
                        procs[p].written \o <<EngineDiagnostics(ret'.uri),
                                              EngineRes("analyzeFile", request_id, TRUE)>>
                 /\ ret'.diagnostics = ret'.uri]_vars

\* a handle has analyzed two different files, one call after the other
C36_Witness ==
    /\ ret.op = "EngineHandle::analyze_file"
    /\ ret.ok
    /\ ret.uri = "u2"
    /\ ret.diagnostics = "u2"
    /\ own # None
    /\ Len(procs[own[1].process].received) = 3
    /\ procs[own[1].process].received[2].uri = "u1"
    /\ Len(procs[own[1].process].written) = 5
    /\ procs[own[1].process].outbox = <<>>

TIMEOUT_SECS == 300
\* Number of steps of the clock in one run; a step is as long as the timeout.
MaxTime == 2

\* Instant::now() moves on between two calls of the host. The clock is read
\* only against the last_activity of a handle, so it is followed while the
\* table holds a handle.
Tick ==
    /\ now < MaxTime * TIMEOUT_SECS
    /\ engines # <<>>
    /\ now' = now + TIMEOUT_SECS
    /\ UNCHANGED <<serverVars, rtVars, engines, own, procs, ret>>

\* EngineHandle::is_idle
is_idle(h, timeout) == now - h.last_activity > timeout

\* the ids cleanup_idle_engines collects
idle_engines == {id \in DOMAIN engines : is_idle(engines[id], TIMEOUT_SECS)}

\* EngineManager::cleanup_idle_engines: the loop over the collected ids is
\* the loop of shutdown_all, with the same ? on shutdown_engine
EngineManager_cleanup_idle_engines ==
    /\ CanCall
    /\ \E o \in Orders(idle_engines), fates \in [idle_engines -> FATES] :
         LET r == ShutdownFrom(engines, procs, o, 1, fates)
         IN /\ r.err # "blocked"
            /\ engines' = r.engines
            /\ procs' = r.procs
            /\ Returns("cleanup_idle_engines", "", r.ok, r.err, FALSE)
    /\ UNCHANGED <<serverVars, rtVars, own, now>>

\* the loop of analyze_file_all over the snapshot of the keys, in the order
\* o: an Ok result is pushed, an Err is swallowed. outcomes records which
\* calls returned Ok.
RECURSIVE AnalyzeAllFrom(_, _, _, _, _, _, _)
AnalyzeAllFrom(t, ps, o, i, uri, fates, acc) ==
    IF i > Len(o) THEN [engines |-> t, procs |-> ps, results |-> acc.results,
                        outcomes |-> acc.outcomes, blocked |-> FALSE]
    ELSE LET r == EngineHandle_analyze_file(t[o[i]], ps, uri, fates[o[i]])
         IN IF r.err = "blocked"
            THEN [engines |-> t, procs |-> ps, results |-> acc.results,
                  outcomes |-> acc.outcomes, blocked |-> TRUE]
            ELSE AnalyzeAllFrom([t EXCEPT ![o[i]] = r.h], r.procs, o, i + 1, uri, fates,
                     [results |-> IF r.ok
                                  THEN Append(acc.results,
                                              [engine_id |-> r.h.info, uri |-> uri,
                                               diagnostics |-> r.diagnostics])
                                  ELSE acc.results,
                      outcomes |-> Append(acc.outcomes, [engine_id |-> o[i], ok |-> r.ok])])

\* Variant of the loop: the first Err ends it, as a ? would.
RECURSIVE AnalyzeAllUntilErr(_, _, _, _, _, _, _)
AnalyzeAllUntilErr(t, ps, o, i, uri, fates, acc) ==
    IF i > Len(o) THEN [engines |-> t, procs |-> ps, results |-> acc.results,
                        outcomes |-> acc.outcomes, blocked |-> FALSE]
    ELSE LET r == EngineHandle_analyze_file(t[o[i]], ps, uri, fates[o[i]])
         IN IF r.err = "blocked"
            THEN [engines |-> t, procs |-> ps, results |-> acc.results,
                  outcomes |-> acc.outcomes, blocked |-> TRUE]
            ELSE IF ~r.ok
            THEN [engines |-> [t EXCEPT ![o[i]] = r.h], procs |-> r.procs,
                  results |-> acc.results,
                  outcomes |-> Append(acc.outcomes, [engine_id |-> o[i], ok |-> FALSE]),
                  blocked |-> FALSE]
            ELSE AnalyzeAllUntilErr([t EXCEPT ![o[i]] = r.h], r.procs, o, i + 1, uri, fates,
                     [results |-> Append(acc.results,
                                         [engine_id |-> r.h.info, uri |-> uri,
                                          diagnostics |-> r.diagnostics]),
                      outcomes |-> Append(acc.outcomes, [engine_id |-> o[i], ok |-> TRUE])])

analyze_file_all_until_err(t, ps, o, uri, fates) ==
    AnalyzeAllUntilErr(t, ps, o, 1, uri, fates, [results |-> <<>>, outcomes |-> <<>>])

\* EngineManager::analyze_file_all as a function of the table and the
\* processes
analyze_file_all(t, ps, o, uri, fates) ==
    AnalyzeAllFrom(t, ps, o, 1, uri, fates, [results |-> <<>>, outcomes |-> <<>>])

\* EngineManager::analyze_file_all
EngineManager_analyze_file_all ==
    /\ CanCall
    /\ \E uri \in HOST_URIS, o \in Orders(DOMAIN engines), fates \in [DOMAIN engines -> FATES] :
         LET r == analyze_file_all(engines, procs, o, uri, fates)
         IN /\ ~r.blocked
            /\ engines' = r.engines
            /\ procs' = r.procs
            /\ ret' = [n |-> ret.n + 1, op |-> "analyze_file_all", id |-> "", ok |-> TRUE,
                       err |-> "", keys |-> DOMAIN engines, was_initialized |-> FALSE,
                       uri |-> uri, results |-> r.results, outcomes |-> r.outcomes]
    /\ UNCHANGED <<serverVars, rtVars, own, now>>

NextManager ==
    \/ EngineManager_start_engine
    \/ EngineManager_analyze_file
    \/ EngineManager_analyze_file_all
    \/ EngineManager_shutdown_engine
    \/ EngineManager_shutdown_all
    \/ EngineManager_cleanup_idle_engines
    \/ Tick
    \/ \E p \in DOMAIN procs : Engine_eof(p)

SpecManager == InitHost /\ [][NextManager]_vars

(***************************************************************************)
(* Properties of the manager's table.                                      *)
(***************************************************************************)
\* the time since the last activity of the engine id is past the timeout
IdlePast(id) == now - engines[id].last_activity > TIMEOUT_SECS

\* C31: cleanup_idle_engines removes from the table every handle whose time
\* since last_activity is strictly greater than the timeout and closes its
\* pipes, and leaves every other handle and its process as they were; when
\* all engines are idle past the timeout, running_engines() is empty
\* afterwards.
C31_IdleReaping ==
    [][IsCall("cleanup_idle_engines") =>
           /\ running_engines' = {id \in DOMAIN engines : ~IdlePast(id)}
           /\ \A id \in DOMAIN engines :
                  IF IdlePast(id)
                  THEN procs'[engines[id].process].stdin = "closed"
                  ELSE /\ id \in DOMAIN engines'
                       /\ engines'[id] = engines[id]
                       /\ procs'[engines[id].process] = procs[engines[id].process]]_vars

\* the engine id has written the diagnostics event and the response of one
\* more analyzeFile request
Analyzed(id) ==
    Len(procs'[engines[id].process].written) = Len(procs[engines[id].process].written) + 2

\* C34: analyze_file_all calls analyze_file once for every engine of the
\* table: each handle has allocated one more request id, the result holds
\* one EngineAnalysisResult, for the uri of the call, for every engine that
\* answered its request and none for an engine whose call failed, and the
\* keys of the table are as before.
C34_AnalyzeAll ==
    [][IsCall("analyze_file_all") =>
           /\ running_engines' = DOMAIN engines
           /\ Len(ret'.outcomes) = Cardinality(DOMAIN engines)
           /\ \A id \in DOMAIN engines :
                  /\ engines'[id].request_counter = engines[id].request_counter + 1
                  /\ Cardinality({k \in 1..Len(ret'.outcomes) :
                         ret'.outcomes[k].engine_id = id}) = 1
                  /\ Cardinality({k \in 1..Len(ret'.results) :
                         ret'.results[k].engine_id = id}) = IF Analyzed(id) THEN 1 ELSE 0
                  /\ \A k \in 1..Len(ret'.outcomes) :
                         ret'.outcomes[k].engine_id = id =>
                             ret'.outcomes[k].ok = Analyzed(id)
           /\ \A k \in 1..Len(ret'.results) :
                  /\ ret'.results[k].engine_id \in DOMAIN engines
                  /\ ret'.results[k].uri = ret'.uri
                  /\ ret'.results[k].diagnostics = ret'.uri]_vars

\* analyze_file_all over two engines: the call on the first one failed, the
\* second one was still analyzed, and both are in the table
C34_Witness ==
    /\ ret.op = "analyze_file_all"
    /\ ret.keys = {"a", "b"}
    /\ Len(ret.outcomes) = 2
    /\ ~ret.outcomes[1].ok
    /\ ret.outcomes[2].ok
    /\ Len(ret.results) = 1
    /\ ret.results[1].engine_id = ret.outcomes[2].engine_id
    /\ running_engines = {"a", "b"}

\* C39: every handle of the table is initialized and stored under its own
\* id; its process answered initialize with ok, was never sent a shutdown
\* request and was not dropped, and no two entries share a process. So a
\* handle whose initialize failed or whose shutdown was attempted is not in
\* the table.
C39_TableInvariant ==
    \A id \in DOMAIN engines :
        LET h == engines[id]
            pr == procs[h.process]
        IN /\ h.initialized
           /\ h.info = id
           /\ pr.bin = id
           /\ pr.stdin = "open"
           /\ pr.written # <<>>
           /\ pr.written[1] = EngineRes("initialize", <<id, 1>>, TRUE)
           /\ \A k \in 1..Len(pr.received) : pr.received[k].typ # "shutdown"
           /\ \A other \in DOMAIN engines : engines[other].process = h.process => other = id

\* two engines are in the table beside the dropped child of a start_engine
\* that failed
C39_Witness ==
    /\ running_engines = {"a", "b"}
    /\ Len(procs) = 3
    /\ \E p \in DOMAIN procs : procs[p].stdin = "closed" /\ ~procs[p].initialized

(***************************************************************************)
(* Discovery of the engine binaries (linter.rs).                           *)
(***************************************************************************)
\* Number of files in the bin directories of the cache.
MaxBinFiles == 2

\* "forseti_" and "forseti_engine_"
FORSETI_PREFIX == <<"f","o","r","s","e","t","i","_">>
FORSETI_ENGINE_PREFIX == FORSETI_PREFIX \o <<"e","n","g","i","n","e","_">>

\* the file names found in <cache_dir>/<engine>/bin/: forseti_engine_a,
\* forseti_engine_b.exe, forseti_engine_engine_a, forseti_a, engine_a, a
BIN_NAMES ==
    { FORSETI_ENGINE_PREFIX \o <<"a">>,
      FORSETI_ENGINE_PREFIX \o <<"b",".","e","x","e">>,
      FORSETI_ENGINE_PREFIX \o <<"e","n","g","i","n","e","_","a">>,
      FORSETI_PREFIX \o <<"a">>,
      <<"e","n","g","i","n","e","_","a">>,
      <<"a">> }

\* the ids start_engine is called with: a, b, engine_a, engine_b
LOOKUP_IDS ==
    { <<"a">>, <<"b">>, <<"e","n","g","i","n","e","_","a">>,
      <<"e","n","g","i","n","e","_","b">> }

\* the index of the last "." of a name, 0 when it has none
LastDot(name) ==
    IF \E i \in 1..Len(name) : name[i] = "."
    THEN CHOOSE i \in 1..Len(name) :
             name[i] = "." /\ \A j \in (i + 1)..Len(name) : name[j] # "."
    ELSE 0

\* Path::file_stem: the file name without its extension; a name that has
\* no "." after its first character is its own stem
file_stem(name) ==
    IF LastDot(name) <= 1 THEN name ELSE SubSeq(name, 1, LastDot(name) - 1)

\* EngineInfo::from_binary; a binary_path is [name, is_file]
from_binary(binary_path) ==
    LET id == file_stem(binary_path.name)
    IN [id |-> IF starts_with(id, FORSETI_PREFIX)
               THEN unwrap_or(strip_prefix(id, FORSETI_PREFIX), id)
               ELSE id,
        binary_path |-> binary_path]

\* EngineManager::discover_engines over the entries of the bin directories,
\* in the order read_dir gives them, from entry i on
RECURSIVE DiscoverFrom(_, _, _)
DiscoverFrom(entries, i, found) ==
    IF i > Len(entries) THEN found
    ELSE IF ~entries[i].is_file THEN DiscoverFrom(entries, i + 1, found)
    ELSE IF starts_with(entries[i].name, FORSETI_ENGINE_PREFIX)
    THEN DiscoverFrom(entries, i + 1, Append(found, from_binary(entries[i])))
    ELSE DiscoverFrom(entries, i + 1, found)

discover_engines(entries) == DiscoverFrom(entries, 1, <<>>)

\* engines.into_iter().find(|e| e.id == engine_id) in start_engine
find_engine(found, engine_id) ==
    IF \E i \in 1..Len(found) : found[i].id = engine_id
    THEN Some(found[CHOOSE i \in 1..Len(found) :
                  found[i].id = engine_id /\ \A j \in 1..(i - 1) : found[j].id # engine_id])
    ELSE None

\* the bin directories hold up to MaxBinFiles entries, files or directories
InitDiscover ==
    /\ ServerIdle
    /\ rt_in \in {[fn |-> "input", entries |-> e] :
                    e \in UNION {[1..n -> [name : BIN_NAMES, is_file : BOOLEAN]] :
                                    n \in 0..MaxBinFiles}}
    /\ rt_out = [fn |-> "none"]

Call_discover_engines ==
    /\ rt_out.fn = "none"
    /\ rt_out' = [fn |-> "discover_engines", engines |-> discover_engines(rt_in.entries)]
    /\ UNCHANGED <<serverVars, hostVars, rt_in>>

\* start_engine up to the lookup of the engine info
Call_start_engine ==
    /\ rt_out.fn = "none"
    /\ \E engine_id \in LOOKUP_IDS :
         rt_out' = [fn |-> "start_engine", engines |-> discover_engines(rt_in.entries),
                    engine_id |-> engine_id,
                    engine_info |-> find_engine(discover_engines(rt_in.entries), engine_id)]
    /\ UNCHANGED <<serverVars, hostVars, rt_in>>

NextDiscover ==
    \/ Call_discover_engines
    \/ Call_start_engine

SpecDiscover == InitDiscover /\ [][NextDiscover]_vars

\* the i-th entry is a binary named forseti_engine_<id>, id not empty
IsEngineBinary(i, id) ==
    /\ rt_in.entries[i].is_file
    /\ id # <<>>
    /\ file_stem(rt_in.entries[i].name) = FORSETI_ENGINE_PREFIX \o id

\* C33: for every binary named forseti_engine_<id> in a bin directory,
\* discover_engines returns an EngineInfo of that binary whose id is <id>,
\* and start_engine(<id>) finds the EngineInfo of a binary of that name.
C33_EngineIdDerivation ==
    rt_out.fn # "none" =>
        \A i \in 1..Len(rt_in.entries) : \A id \in LOOKUP_IDS :
            IsEngineBinary(i, id) =>
                /\ \E k \in 1..Len(rt_out.engines) :
                       /\ rt_out.engines[k].binary_path = rt_in.entries[i]
                       /\ rt_out.engines[k].id = id
                /\ (rt_out.fn = "start_engine" /\ rt_out.engine_id = id) =>
                       /\ rt_out.engine_info # None
                       /\ file_stem(rt_out.engine_info[1].binary_path.name)
                              = FORSETI_ENGINE_PREFIX \o id

====
